---- MODULE Spec2Model ----
(***************************************************************************)
(* Model of the odds-matching and EV-computation engine of EV_Prop_Bot     *)
(* (src/api.py): the vig remover, the identity normalizer, the fuzzy       *)
(* matcher, the /api/ev batch analysis, /api/middles, the Odds API key     *)
(* manager and the data cache; and of analyze_platform of the Discord bot  *)
(* (src/bot.py).                                                           *)
(*                                                                         *)
(* Units.  Probabilities and percentages computed by calculate_no_vig are  *)
(* exact rationals <<n, d>> (d > 0, lowest terms).  Values the code rounds *)
(* with round(x, 2) are integers counting hundredths (58.33 is 5833).      *)
(* Lines are integers counting tenths (24.5 is 245).  Strings the code     *)
(* edits character by character (player names) are sequences of           *)
(* one-character strings; strings it only compares (stat labels, markets,  *)
(* platforms, bookmakers) are TLA+ strings.  An Optional value is a        *)
(* sequence of length 0 (None) or 1.                                       *)
(***************************************************************************)
EXTENDS Integers, Sequences, FiniteSets, TLC

VARIABLES
    \* POST /api/calc
    over_odds, under_odds,      \* the request's query parameters
    calc_out,                   \* what calculate_no_vig returned or raised
    \* normalize
    norm_in, norm_out,
    \* match_player
    m_name, m_candidates, m_threshold, m_out,
    fuzz,                       \* the similarity scores of the fuzzywuzzy library
    \* GET /api/ev
    platform_props,             \* what the platform fetchers return
    book_odds,                  \* what the sportsbook feed holds
    req,                        \* the query parameters of the request
    pc,                         \* "idle", "loop", "done", "error"
    all_props,                  \* the handler's local: the props it analyses
    all_odds,                   \* the handler's local: the odds it fetched
    idx,                        \* the loop's position in all_props
    ev_plays,                   \* the plays emitted so far
    trace,                      \* per analysed prop: what the loop body did
    cache,                      \* DataCache.cache restricted to the key ev_<sport>
    response,                   \* the last response of the handler
    served,                     \* the number of /api/ev requests answered
    \* the pricing of a play (src/api.py:1214-1233)
    price_win, price_platform, price_out,
    \* GET /api/middles
    pp_props, ud_props,         \* what fetch_prizepicks and fetch_underdog return
    mid_req,                    \* the query parameters of the last request
    mid_cache,                  \* DataCache.cache restricted to the key middles_<sport>
    mid_response,               \* the last response of the handler
    mid_served,                 \* the number of /api/middles requests answered
    \* OddsAPIKeyManager and the handlers that use it
    env,                        \* os.environ: ODDS_API_KEY, ODDS_API_KEY_1, ...
    keys, current_index,        \* api_key_manager.keys, .current_index
    key_usage,                  \* api_key_manager.key_usage
    key_call,                   \* the last call on the manager and what it did
    usage_pc,                   \* get_odds_api_usage: "idle" or "sent"
    fetch,                      \* per concurrent fetch_sharp_odds: where it is
    \* DataCache and the handlers that read and fill it
    dcache,                     \* DataCache.cache: key -> (data, timestamp, ttl)
    now,                        \* time.time(), in seconds
    in_flight,                  \* the requests that are fetching fresh data
    answered,                   \* the response sent in the last step, if any
    \* analyze_platform of the Discord bot (src/bot.py)
    bot_source,                 \* the platform analysed
    bot_props,                  \* what fetch_func returns
    bot_feed,                   \* per market: what fetch_odds returns
    bot_out                     \* what analyze_platform returned

calcVars  == <<over_odds, under_odds, calc_out>>
normVars  == <<norm_in, norm_out>>
matchVars == <<m_name, m_candidates, m_threshold, m_out>>
evVars    ==
    <<platform_props, book_odds, req, pc, all_props, all_odds, idx, ev_plays, trace,
      cache, response, served>>
priceVars == <<price_win, price_platform, price_out>>
midVars   == <<pp_props, ud_props, mid_req, mid_cache, mid_response, mid_served>>
keyVars   == <<env, keys, current_index, key_usage, key_call, usage_pc, fetch>>
dcVars    == <<dcache, now, in_flight, answered>>
botVars   == <<bot_source, bot_props, bot_feed, bot_out>>
extVars   == <<keyVars, dcVars, botVars>>
vars      == <<calcVars, normVars, matchVars, fuzz, evVars, priceVars, midVars, extVars>>

(***************************************************************************)
(* Optional values.  A variable that holds the outcome of an operation is   *)
(* None until the operation has run.                                       *)
(***************************************************************************)
None    == <<>>
Some(x) == <<x>>

(***************************************************************************)
(* Exact rational arithmetic.                                              *)
(***************************************************************************)
Abs(x) == IF x < 0 THEN -x ELSE x

RECURSIVE GCD(_, _)
GCD(a, b) == IF b = 0 THEN a ELSE GCD(b, a % b)

Rat(n, d) ==
    LET g == GCD(Abs(n), Abs(d))
        s == IF d < 0 THEN -1 ELSE 1
    IN  <<(s * n) \div g, (s * d) \div g>>

RInt(k) == <<k, 1>>

RMul(x, y) == Rat(x[1] * y[1], x[2] * y[2])

\* x / y for y # 0
RDiv(x, y) == Rat(x[1] * y[2], x[2] * y[1])

RAdd(x, y) ==
    LET g == GCD(x[2], y[2])
    IN  Rat(x[1] * (y[2] \div g) + y[1] * (x[2] \div g), (x[2] \div g) * y[2])

RNeg(x) == <<-x[1], x[2]>>

RSub(x, y) == RAdd(x, RNeg(y))

RAbs(x) == <<Abs(x[1]), x[2]>>

\* a/b < c/d for b, d > 0, by integer parts and reciprocals of the fractional
\* parts (no cross product, so no overflow of TLC's 32-bit integers)
RECURSIVE FracLess(_, _, _, _)
FracLess(a, b, c, d) ==
    LET qa == a \div b
        qc == c \div d
        ra == a % b
        rc == c % d
    IN  IF qa # qc THEN qa < qc
        ELSE IF rc = 0 THEN FALSE
        ELSE IF ra = 0 THEN TRUE
        ELSE FracLess(d, rc, b, ra)

RLess(x, y) == FracLess(x[1], x[2], y[1], y[2])
RLeq(x, y)  == ~RLess(y, x)
RMax(x, y)  == IF RLess(x, y) THEN y ELSE x

\* a number of hundredths as a rational
Hundredths(h) == Rat(h, 100)

\* round(x, 2) in hundredths: the nearest hundredth, an exact tie to the even one
Round2(x) ==
    LET n == 100 * x[1]
        q == n \div x[2]
        r == n % x[2]
    IN  IF 2 * r < x[2] THEN q
        ELSE IF 2 * r > x[2] THEN q + 1
        ELSE IF q % 2 = 0 THEN q ELSE q + 1

(***************************************************************************)
(* Bounds of the model.                                                    *)
(***************************************************************************)
\* the number of /api/middles requests of a behaviour
MaxMidRequests == 2

\* the number of /api/ev requests of a behaviour of SpecEVRepeat
MaxEvRequests == 2

\* American odds offered to /api/calc: the multiples of 10 up to
\* 10 * MaxOddsTens in absolute value, and every integer up to MaxSmallOdds
MaxOddsTens  == 15
MaxSmallOdds == 3

OddsDomain ==
    {10 * k : k \in (-MaxOddsTens)..MaxOddsTens} \cup ((-MaxSmallOdds)..MaxSmallOdds)

(***************************************************************************)
(* calculate_no_vig (src/api.py:810-825) and POST /api/calc.               *)
(***************************************************************************)
\* a plausible slip: the favourite's numerator without abs()
implied_prob_signed(odds) ==
    IF odds > 0 THEN Rat(100, odds + 100) ELSE Rat(odds, Abs(odds) + 100)

implied_prob(odds) ==
    IF odds > 0 THEN Rat(100, odds + 100) ELSE Rat(Abs(odds), Abs(odds) + 100)

\* a plausible slip: the implied probabilities scaled to percent without
\* dividing by their sum
calculate_no_vig_raw(o, u) ==
    [status |-> "ok",
     over   |-> RMul(implied_prob(o), RInt(100)),
     under  |-> RMul(implied_prob(u), RInt(100))]

\* a plausible slip: only the over side is divided by the total
calculate_no_vig_half(o, u) ==
    LET over_implied  == implied_prob(o)
        under_implied == implied_prob(u)
        total         == RAdd(over_implied, under_implied)
    IN  IF total[1] = 0
        THEN [status |-> "raise", error |-> "ZeroDivisionError"]
        ELSE [status |-> "ok",
              over   |-> RMul(RDiv(over_implied, total), RInt(100)),
              under  |-> RMul(under_implied, RInt(100))]

\* Python raises ZeroDivisionError on the float division x / 0.0
calculate_no_vig(o, u) ==
    LET over_implied  == implied_prob(o)
        under_implied == implied_prob(u)
        total         == RAdd(over_implied, under_implied)
    IN  IF total[1] = 0
        THEN [status |-> "raise", error |-> "ZeroDivisionError"]
        ELSE [status |-> "ok",
              over   |-> RMul(RDiv(over_implied, total), RInt(100)),
              under  |-> RMul(RDiv(under_implied, total), RInt(100))]

\* the body of the /api/calc response, or the unhandled exception
calculate_ev(o, u) ==
    LET r == calculate_no_vig(o, u)
        AnyAtLeast(h) == RLeq(Hundredths(h), r.over) \/ RLeq(Hundredths(h), r.under)
    IN  IF r.status = "raise"
        THEN [result |-> r, http |-> [status |-> 500, error |-> r.error]]
        ELSE [result |-> r,
              http   |-> [status            |-> 200,
                          over_odds         |-> o,
                          under_odds        |-> u,
                          over_probability  |-> Round2(r.over),
                          under_probability |-> Round2(r.under),
                          vig_percentage    |->
                              Round2(RNeg(RSub(RAdd(r.over, r.under), RInt(100)))),
                          prizepicks        |-> [s \in {"5_flex", "4_power", "2_power"} |->
                              AnyAtLeast(CASE s = "5_flex" -> 5434
                                           [] s = "4_power" -> 5623
                                           [] s = "2_power" -> 5774)],
                          underdog          |-> [s \in {"5_leg", "4_leg", "3_leg"} |->
                              AnyAtLeast(CASE s = "5_leg" -> 5238
                                           [] s = "4_leg" -> 5357
                                           [] s = "3_leg" -> 5556)]]]

(***************************************************************************)
(* normalize (src/api.py:830-834), the same code as normalize_name         *)
(* (src/cli.py:239-243).                                                   *)
(***************************************************************************)
\* str.lower() on the letters the model's names use
LowerChar(c) ==
    CASE c = "A" -> "a" [] c = "B" -> "b" [] c = "I" -> "i" [] c = "J" -> "j"
      [] c = "L" -> "l" [] c = "R" -> "r" [] c = "S" -> "s" [] c = "V" -> "v"
      [] OTHER -> c

Lower(s) == [k \in 1..Len(s) |-> LowerChar(s[k])]

\* str.strip(): leading and trailing whitespace removed
RECURSIVE LStrip(_)
LStrip(s) == IF s # <<>> /\ Head(s) = " " THEN LStrip(Tail(s)) ELSE s

RECURSIVE RStrip(_)
RStrip(s) ==
    IF s # <<>> /\ s[Len(s)] = " " THEN RStrip(SubSeq(s, 1, Len(s) - 1)) ELSE s

Strip(s) == RStrip(LStrip(s))

\* str.replace(old, ""): one left-to-right pass over the non-overlapping
\* occurrences of old (old is not empty)
RECURSIVE Remove(_, _)
Remove(s, old) ==
    IF Len(s) < Len(old) THEN s
    ELSE IF SubSeq(s, 1, Len(old)) = old
         THEN Remove(SubSeq(s, Len(old) + 1, Len(s)), old)
         ELSE <<Head(s)>> \o Remove(Tail(s), old)

\* the suffixes in the order the loop removes them
SUFFIXES ==
    << <<" ", "j", "r", ".">>, <<" ", "s", "r", ".">>, <<" ", "i", "i", "i">>,
       <<" ", "i", "i">>, <<" ", "i", "v">> >>

RECURSIVE RemoveAll(_, _, _)
RemoveAll(n, suffixes, k) ==
    IF k > Len(suffixes) THEN n ELSE RemoveAll(Remove(n, suffixes[k]), suffixes, k + 1)

normalize(n) == RemoveAll(Strip(Lower(n)), SUFFIXES, 1)

\* sub occurs in s
Contains(s, sub) ==
    \E k \in 1..(Len(s) - Len(sub) + 1) : SubSeq(s, k, k + Len(sub) - 1) = sub

ContainsSuffix(s) == \E k \in 1..Len(SUFFIXES) : Contains(s, SUFFIXES[k])

(***************************************************************************)
(* match_player (src/api.py:828-851), the same code as match_players       *)
(* (src/cli.py:245-258).                                                   *)
(***************************************************************************)
\* max(fuzz.ratio, fuzz.partial_ratio, fuzz.token_sort_ratio) of two
\* normalized names.  The library scores equal strings 100; every other
\* pair has the score the variable fuzz holds for it.
score(name_norm, cand_norm) ==
    IF name_norm = cand_norm THEN 100 ELSE fuzz[<<name_norm, cand_norm>>]

\* the loop over candidates, from candidate k on
RECURSIVE match_loop(_, _, _, _, _, _)
match_loop(name_norm, candidates, threshold, k, best_match, best_score) ==
    IF k > Len(candidates) THEN best_match
    ELSE LET sc == score(name_norm, normalize(candidates[k]))
         IN  IF sc > best_score /\ sc >= threshold
             THEN match_loop(name_norm, candidates, threshold, k + 1,
                             Some(candidates[k]), sc)
             ELSE match_loop(name_norm, candidates, threshold, k + 1,
                             best_match, best_score)

\* a plausible slip: the loop runs over the normalized candidates and returns
\* the normalized spelling
match_player_normalized(name, candidates, threshold) ==
    match_loop(normalize(name), [k \in 1..Len(candidates) |-> normalize(candidates[k])],
               threshold, 1, None, 0)

match_player(name, candidates, threshold) ==
    match_loop(normalize(name), candidates, threshold, 1, None, 0)

(***************************************************************************)
(* Configuration tables (src/api.py:239-294).                              *)
(***************************************************************************)
PROP_MAPPINGS ==
    [stat \in {"Points", "Rebounds", "Assists", "3-Point Made", "Pts+Rebs+Asts",
               "Steals", "Blocks", "Turnovers", "Pass Yards", "Rush Yards",
               "Receiving Yards", "Receptions", "Pass TDs", "Strikeouts",
               "Hits Allowed", "Shots On Goal", "Goals", "points", "rebounds",
               "assists", "pts_rebs_asts", "three_pointers_made", "passing_yards",
               "rushing_yards", "receiving_yards"} |->
        CASE stat \in {"Points", "points"}                  -> "player_points"
          [] stat \in {"Rebounds", "rebounds"}              -> "player_rebounds"
          [] stat \in {"Assists", "assists"}                -> "player_assists"
          [] stat \in {"3-Point Made", "three_pointers_made"} -> "player_threes"
          [] stat \in {"Pts+Rebs+Asts", "pts_rebs_asts"}    -> "player_points_rebounds_assists"
          [] stat = "Steals"                                -> "player_steals"
          [] stat = "Blocks"                                -> "player_blocks"
          [] stat = "Turnovers"                             -> "player_turnovers"
          [] stat \in {"Pass Yards", "passing_yards"}       -> "player_pass_yds"
          [] stat \in {"Rush Yards", "rushing_yards"}       -> "player_rush_yds"
          [] stat \in {"Receiving Yards", "receiving_yards"} -> "player_reception_yds"
          [] stat = "Receptions"                            -> "player_receptions"
          [] stat = "Pass TDs"                              -> "player_pass_tds"
          [] stat = "Strikeouts"                            -> "pitcher_strikeouts"
          [] stat = "Hits Allowed"                          -> "pitcher_hits_allowed"
          [] stat = "Shots On Goal"                         -> "player_shots_on_goal"
          [] stat = "Goals"                                 -> "player_goals"]

\* per platform, the slip types in the order of the dict, in hundredths
BREAKEVEN ==
    [prizepicks |-> << <<"5_flex", 5434>>, <<"6_flex", 5434>>, <<"4_power", 5623>>,
                       <<"2_power", 5774>>, <<"default", 5434>> >>,
     underdog   |-> << <<"5_leg", 5238>>, <<"4_leg", 5357>>, <<"3_leg", 5556>>,
                       <<"2_leg", 6000>>, <<"default", 5238>> >>,
     sleeper    |-> << <<"default", 5400>> >>,
     betr       |-> << <<"default", 5400>> >>]

\* dict.get(key, fallback) on a dict held as a sequence of <<key, value>>
DictGet(dict, key, fallback) ==
    LET hits == SelectSeq(dict, LAMBDA kv : kv[1] = key)
    IN  IF hits = <<>> THEN fallback ELSE hits[1][2]

\* the threshold of win_prob - default_be when the platform has no entry
FALLBACK_BREAKEVEN == 5434

\* the default of match_player's threshold
DEFAULT_THRESHOLD == 80

\* abs(odds["line"] - prop.line) > 0.5, in tenths
LINE_TOLERANCE == 5

\* a plausible slip: the constant 54.34 for every platform
default_breakeven_flat(platform) == FALLBACK_BREAKEVEN

\* BREAKEVEN.get(platform, {}).get("default", 54.34), in hundredths
default_breakeven(platform) ==
    IF platform \in DOMAIN BREAKEVEN
    THEN DictGet(BREAKEVEN[platform], "default", FALLBACK_BREAKEVEN)
    ELSE FALLBACK_BREAKEVEN

\* ev_pct = win_prob - default_be
ev_pct_of(win_prob, platform) == RSub(win_prob, Hundredths(default_breakeven(platform)))

\* a plausible slip: one of the two thresholds is enough
passes_either(win_prob, ev_pct, min_win, min_ev) ==
    RLeq(Hundredths(min_win), win_prob) \/ RLeq(Hundredths(min_ev), ev_pct)

\* win_prob >= min_win and ev_pct >= min_ev
passes(win_prob, ev_pct, min_win, min_ev) ==
    RLeq(Hundredths(min_win), win_prob) /\ RLeq(Hundredths(min_ev), ev_pct)

(***************************************************************************)
(* get_best_slip_types (src/api.py:854-863).                               *)
(***************************************************************************)
\* a plausible slip: the comparison with the break-even is strict
get_best_slip_types_strict(win_prob, platform) ==
    LET breakevens == IF platform \in DOMAIN BREAKEVEN
                      THEN BREAKEVEN[platform] ELSE BREAKEVEN["prizepicks"]
        plus_ev    == SelectSeq(breakevens,
                          LAMBDA kv : kv[1] # "default" /\ RLess(Hundredths(kv[2]), win_prob))
    IN  [k \in 1..Len(plus_ev) |-> plus_ev[k][1]]

get_best_slip_types(win_prob, platform) ==
    LET breakevens == IF platform \in DOMAIN BREAKEVEN
                      THEN BREAKEVEN[platform] ELSE BREAKEVEN["prizepicks"]
        plus_ev    == SelectSeq(breakevens,
                          LAMBDA kv : kv[1] # "default" /\ RLeq(Hundredths(kv[2]), win_prob))
    IN  [k \in 1..Len(plus_ev) |-> plus_ev[k][1]]

(***************************************************************************)
(* GET /api/ev (src/api.py:1109-1257).                                     *)
(***************************************************************************)
\* str.lower() on the platform names the model's requests use
LowerWord(w) ==
    CASE w = "UNDERDOG" -> "underdog" [] w = "PrizePicks" -> "prizepicks" [] OTHER -> w

\* PROP_MAPPINGS.get(stat)
MarketOf(stat) ==
    IF stat \in DOMAIN PROP_MAPPINGS THEN Some(PROP_MAPPINGS[stat]) ELSE None

\* the props the handler analyses: the fetched props, filtered by the
\* request's platform
all_props_of(r) ==
    IF r.platform # None
    THEN SelectSeq(platform_props, LAMBDA p : p.platform = LowerWord(r.platform[1]))
    ELSE platform_props

\* the markets the handler fetches odds for
markets_of(props) ==
    {MarketOf(props[k].stat_type)[1] :
        k \in {j \in 1..Len(props) : MarketOf(props[j].stat_type) # None}}

\* the odds the handler analyses: the feed's entries of the fetched markets
all_odds_of(props) ==
    LET markets == markets_of(props)
    IN  SelectSeq(book_odds, LAMBDA o : o.market \in markets)

\* the positions 1..n as a sequence
Positions(n) == [k \in 1..n |-> k]

\* a plausible slip: the entries are left in input order
sharp_first_unsorted(odds, rel) == rel

\* list.sort(key = 0 if is_sharp else 1), a stable sort on a two-valued key,
\* on the positions rel of odds
sharp_first(odds, rel) ==
    SelectSeq(rel, LAMBDA j : odds[j].is_sharp)
        \o SelectSeq(rel, LAMBDA j : ~odds[j].is_sharp)

\* the positions in odds of relevant_odds, in the order of relevant_odds
relevant_odds(odds, market) ==
    sharp_first(odds, SelectSeq(Positions(Len(odds)), LAMBDA j : odds[j].market = market))

\* a plausible slip: a tie is recommended OVER
recommend_over_on_tie(over_prob, under_prob) ==
    IF RLeq(under_prob, over_prob)
    THEN [recommended |-> "OVER", win_prob |-> over_prob]
    ELSE [recommended |-> "UNDER", win_prob |-> under_prob]

\* the recommended side and its probability
recommend(over_prob, under_prob) ==
    IF RLess(under_prob, over_prob)
    THEN [recommended |-> "OVER", win_prob |-> over_prob]
    ELSE [recommended |-> "UNDER", win_prob |-> under_prob]

\* a plausible slip: a stat label without an entry is looked up in lower case
prop_market_folded(prop) ==
    IF prop.stat_type = "POINTS" THEN Some("player_points") ELSE MarketOf(prop.stat_type)

\* the market of a prop, None when its stat label has no entry
prop_market(prop) == MarketOf(prop.stat_type)

\* The body of the loop for one prop: what it did (kind), the value of
\* matched_name (matched, None when match_player was not called), the
\* position in odds of the entry it evaluated (used, 0 when none), and the
\* play it appended, if any.
analyze_prop(prop, odds, min_win, min_ev) ==
    LET market == prop_market(prop)
        skip(kind, m) == [kind |-> kind, matched |-> m, used |-> 0, play |-> None]
    IN  IF market = None THEN skip("unmapped", None)
        ELSE
        LET rel     == relevant_odds(odds, market[1])
            matched == match_player(prop.player_name,
                                    [k \in 1..Len(rel) |-> odds[rel[k]].player],
                                    DEFAULT_THRESHOLD)
        IN  IF matched = None \/ matched[1] = <<>> THEN skip("no_match", matched)
            ELSE
            LET usable == SelectSeq(rel, LAMBDA j :
                              /\ odds[j].player = matched[1]
                              /\ Abs(odds[j].line - prop.line) <= LINE_TOLERANCE)
            IN  IF usable = <<>> THEN skip("no_line", matched)
                ELSE
                LET j  == usable[1]
                    nv == calculate_no_vig(odds[j].over_odds, odds[j].under_odds)
                IN  IF nv.status = "raise"
                    THEN [kind |-> "raise", matched |-> matched, used |-> j, play |-> None]
                    ELSE
                    LET rec        == recommend(nv.over, nv.under)
                        ev_pct     == ev_pct_of(rec.win_prob, prop.platform)
                    IN  IF passes(rec.win_prob, ev_pct, min_win, min_ev)
                        THEN [kind |-> "emit", matched |-> matched, used |-> j,
                              play |-> Some(
                                [prop             |-> prop,
                                 sharp_odds       |->
                                    [bookmaker         |-> odds[j].bookmaker,
                                     line              |-> odds[j].line,
                                     over_odds         |-> odds[j].over_odds,
                                     under_odds        |-> odds[j].under_odds,
                                     over_probability  |-> Round2(nv.over),
                                     under_probability |-> Round2(nv.under),
                                     is_sharp          |-> odds[j].is_sharp],
                                 recommended_play |-> rec.recommended,
                                 win_probability  |-> Round2(rec.win_prob),
                                 ev_percentage    |-> Round2(ev_pct),
                                 best_for         |->
                                    get_best_slip_types(rec.win_prob, prop.platform)])]
                        ELSE [kind |-> "below", matched |-> matched, used |-> j,
                              play |-> None]

\* a plausible slip: the plays are left in the order of the loop
sort_by_ev_unsorted(plays) == plays

\* list.sort(key = ev_percentage, reverse = True): stable, descending
RECURSIVE sort_by_ev(_)
sort_by_ev(plays) ==
    IF plays = <<>> THEN <<>>
    ELSE LET last   == plays[Len(plays)]
             sorted == sort_by_ev(SubSeq(plays, 1, Len(plays) - 1))
             before == SelectSeq(sorted, LAMBDA p : p.ev_percentage >= last.ev_percentage)
             after  == SelectSeq(sorted, LAMBDA p : p.ev_percentage < last.ev_percentage)
         IN  before \o <<last>> \o after

\* the filters applied to the plays of a response
filter_plays(plays, r) ==
    LET by_platform == IF r.platform # None
                       THEN SelectSeq(plays, LAMBDA p :
                                p.prop.platform = LowerWord(r.platform[1]))
                       ELSE plays
        by_ev       == IF r.min_ev > 0
                       THEN SelectSeq(by_platform, LAMBDA p : p.ev_percentage >= r.min_ev)
                       ELSE by_platform
    IN  IF r.min_win > 5400
        THEN SelectSeq(by_ev, LAMBDA p : p.win_probability >= r.min_win)
        ELSE by_ev

\* The handler up to the loop, when the cache is not used: the props and
\* the odds are fetched, and the handler returns at once when there is no
\* prop or no odds entry.
EvRequestFresh(r) ==
    /\ pc = "idle"
    /\ r.refresh \/ cache = None
    /\ req' = Some(r)
    /\ ev_plays' = <<>>
    /\ trace' = <<>>
    /\ all_props' = all_props_of(r)
    /\ all_odds' = IF all_props' = <<>> THEN <<>> ELSE all_odds_of(all_props')
    /\ IF all_props' = <<>>
       THEN /\ response' = Some([status |-> 200, count |-> 0, plays |-> <<>>,
                                 error |-> None])
            /\ pc' = "done"
            /\ idx' = 0
       ELSE IF all_odds' = <<>>
       THEN /\ response' = Some([status |-> 200, count |-> 0, plays |-> <<>>,
                                 error |-> Some("Could not fetch sharp odds")])
            /\ pc' = "done"
            /\ idx' = 0
       ELSE /\ response' = None
            /\ pc' = "loop"
            /\ idx' = 1
    /\ UNCHANGED <<platform_props, book_odds, cache, served>>
    /\ UNCHANGED <<calcVars, normVars, matchVars, fuzz, extVars, priceVars, midVars>>

\* One iteration of the loop over all_props.  An exception raised in the
\* body is not caught anywhere in the handler: the request fails.
AnalyzeProp ==
    /\ pc = "loop"
    /\ idx <= Len(all_props)
    /\ LET out == analyze_prop(all_props[idx], all_odds, req[1].min_win, req[1].min_ev)
       IN  /\ trace' = Append(trace, [prop |-> all_props[idx], kind |-> out.kind,
                                      matched |-> out.matched, used |-> out.used,
                                      play |-> out.play])
           /\ IF out.kind = "raise"
              THEN /\ pc' = "error"
                   /\ response' = Some([status |-> 500, count |-> 0, plays |-> <<>>,
                                        error |-> Some("ZeroDivisionError")])
                   /\ UNCHANGED <<idx, ev_plays>>
              ELSE /\ ev_plays' = IF out.play # None
                                  THEN Append(ev_plays, out.play[1]) ELSE ev_plays
                   /\ idx' = idx + 1
                   /\ UNCHANGED <<pc, response>>
    /\ UNCHANGED <<platform_props, book_odds, req, all_props, all_odds, cache, served>>
    /\ UNCHANGED <<calcVars, normVars, matchVars, fuzz, extVars, priceVars, midVars>>

\* After the loop: the plays are sorted and cached, and the response is the
\* filtered list.
EvFinish ==
    /\ pc = "loop"
    /\ idx > Len(all_props)
    /\ LET sorted   == sort_by_ev(ev_plays)
           filtered == filter_plays(sorted, req[1])
       IN  /\ ev_plays' = sorted
           /\ cache' = Some(sorted)
           /\ response' = Some([status |-> 200, count |-> Len(filtered),
                                plays |-> filtered, error |-> None,
                                cached |-> FALSE])
    /\ pc' = "done"
    /\ UNCHANGED <<platform_props, book_odds, req, all_props, all_odds, idx, trace, served>>
    /\ UNCHANGED <<calcVars, normVars, matchVars, fuzz, extVars, priceVars, midVars>>

\* The handler on a cache hit: the cached list, whatever its age, with the
\* filters of the request.
EvRequestCached(r) ==
    /\ pc = "idle"
    /\ ~r.refresh /\ cache # None
    /\ req' = Some(r)
    /\ ev_plays' = filter_plays(cache[1], r)
    /\ response' = Some([status |-> 200, count |-> Len(ev_plays'), plays |-> ev_plays',
                         error |-> None, cached |-> TRUE])
    /\ pc' = "done"
    /\ all_props' = <<>> /\ all_odds' = <<>> /\ idx' = 0 /\ trace' = <<>>
    /\ UNCHANGED <<platform_props, book_odds, cache, served>>
    /\ UNCHANGED <<calcVars, normVars, matchVars, fuzz, extVars, priceVars, midVars>>

\* The response has been sent (or the request has failed) and the server
\* waits for the next request; the cache stays as the request left it.
EvReturn ==
    /\ pc \in {"done", "error"}
    /\ served + 1 < MaxEvRequests
    /\ pc' = "idle"
    /\ served' = served + 1
    /\ UNCHANGED <<platform_props, book_odds, req, all_props, all_odds, idx, ev_plays,
                   trace, cache, response>>
    /\ UNCHANGED <<calcVars, normVars, matchVars, fuzz, extVars, priceVars, midVars>>

(***************************************************************************)
(* GET /api/middles (src/api.py:1260-1360).  Lines and spreads are in       *)
(* tenths; the values of middle_zone are in tenths as well, so that the    *)
(* integer 6 is 60 and the midpoint 6.5 + 0.5 is 70.                       *)
(***************************************************************************)
\* str.lower() on the stat and sport labels the model's props use
LowerLabel(w) ==
    CASE w = "Points" -> "points" [] w = "POINTS" -> "points" [] w = "NBA" -> "nba"
      [] OTHER -> w

\* the grouping key of a prop
key(p) == <<Strip(Lower(p.player_name)), LowerLabel(p.stat_type), LowerLabel(p.sport)>>

\* a plausible slip: a prop does not replace an earlier prop of its key
RECURSIVE by_key_first(_)
by_key_first(props) ==
    IF props = <<>> THEN <<>>
    ELSE LET rest == by_key_first(SubSeq(props, 1, Len(props) - 1))
             last == props[Len(props)]
         IN  IF \E i \in 1..Len(rest) : rest[i][1] = key(last)
             THEN rest
             ELSE Append(rest, <<key(last), last>>)

\* {key(p): p for p in props} as a sequence of <<key, prop>>: the keys in the
\* order of their first insertion, each with the last prop of that key
RECURSIVE by_key(_)
by_key(props) ==
    IF props = <<>> THEN <<>>
    ELSE LET rest == by_key(SubSeq(props, 1, Len(props) - 1))
             last == props[Len(props)]
         IN  IF \E i \in 1..Len(rest) : rest[i][1] = key(last)
             THEN [i \in 1..Len(rest) |->
                      IF rest[i][1] = key(last) THEN <<key(last), last>> ELSE rest[i]]
             ELSE Append(rest, <<key(last), last>>)

\* int(x) of a float: truncation toward zero, of a number of tenths
int(x) == IF x >= 0 THEN x \div 10 ELSE -((-x) \div 10)

\* list(range(int(low_line) + 1, int(high_line) + 1)), or [low_line + 0.5]
\* when the range is empty
middle_zone(low_line, high_line) ==
    LET first == int(low_line) + 1
        last  == int(high_line)
    IN  IF first > last THEN <<low_line + 5>>
        ELSE [i \in 1..(last - first + 1) |-> 10 * (first + i - 1)]

\* the middle appended for a pair of props of one key
new_middle(pp_prop, ud_prop) ==
    LET pp_higher == pp_prop.line > ud_prop.line
        high_line == IF pp_higher THEN pp_prop.line ELSE ud_prop.line
        low_line  == IF pp_higher THEN ud_prop.line ELSE pp_prop.line
    IN  [player_name |-> pp_prop.player_name,
         stat_type   |-> pp_prop.stat_type,
         sport       |-> "NBA",
         platform_a  |-> [name |-> IF pp_higher THEN "prizepicks" ELSE "underdog",
                          line |-> high_line, recommended |-> "UNDER"],
         platform_b  |-> [name |-> IF pp_higher THEN "underdog" ELSE "prizepicks",
                          line |-> low_line, recommended |-> "OVER"],
         spread      |-> Abs(pp_prop.line - ud_prop.line),
         middle_zone |-> middle_zone(low_line, high_line)]

\* the loop over pp_by_key, from entry k on
RECURSIVE middles_loop(_, _, _, _)
middles_loop(pp_by_key, ud_by_key, min_spread, k) ==
    IF k > Len(pp_by_key) THEN <<>>
    ELSE LET hits == SelectSeq(ud_by_key, LAMBDA kv : kv[1] = pp_by_key[k][1])
             rest == middles_loop(pp_by_key, ud_by_key, min_spread, k + 1)
         IN  IF hits = <<>> THEN rest
             ELSE IF Abs(pp_by_key[k][2].line - hits[1][2].line) >= min_spread
             THEN <<new_middle(pp_by_key[k][2], hits[1][2])>> \o rest
             ELSE rest

\* a plausible slip: the middles are left in the order of the loop
sort_by_spread_unsorted(middles) == middles

\* list.sort(key = spread, reverse = True): stable, descending
RECURSIVE sort_by_spread(_)
sort_by_spread(middles) ==
    IF middles = <<>> THEN <<>>
    ELSE LET last   == middles[Len(middles)]
             sorted == sort_by_spread(SubSeq(middles, 1, Len(middles) - 1))
             before == SelectSeq(sorted, LAMBDA m : m.spread >= last.spread)
             after  == SelectSeq(sorted, LAMBDA m : m.spread < last.spread)
         IN  before \o <<last>> \o after

\* [m for m in middles if m["spread"] >= min_spread]
filter_spread(middles, min_spread) == SelectSeq(middles, LAMBDA m : m.spread >= min_spread)

\* what a request computes from the fetched props when the cache is not used
fresh_middles(r) ==
    sort_by_spread(middles_loop(by_key(pp_props), by_key(ud_props), r.min_spread, 1))

\* The handler when the cache is not used: the middles are computed, sorted
\* and cached, and the response is the filtered list.
MiddlesFresh(r) ==
    /\ mid_served < MaxMidRequests
    /\ r.refresh \/ mid_cache = None
    /\ mid_req' = Some(r)
    /\ LET middles  == fresh_middles(r)
           filtered == filter_spread(middles, r.min_spread)
       IN  /\ mid_cache' = Some(middles)
           /\ mid_response' = [count |-> Len(filtered), middles |-> filtered,
                               cached |-> FALSE]
    /\ mid_served' = mid_served + 1
    /\ UNCHANGED <<pp_props, ud_props>>
    /\ UNCHANGED <<calcVars, normVars, matchVars, fuzz, extVars, evVars, priceVars>>

\* The handler on a cache hit: the cached list, whatever its age, filtered
\* by the request's min_spread.
MiddlesCached(r) ==
    /\ mid_served < MaxMidRequests
    /\ ~r.refresh /\ mid_cache # None
    /\ mid_req' = Some(r)
    /\ LET middles == filter_spread(mid_cache[1], r.min_spread)
       IN  mid_response' = [count |-> Len(middles), middles |-> middles,
                            cached |-> TRUE]
    /\ mid_served' = mid_served + 1
    /\ UNCHANGED <<pp_props, ud_props, mid_cache>>
    /\ UNCHANGED <<calcVars, normVars, matchVars, fuzz, extVars, evVars, priceVars>>

(***************************************************************************)
(* The variables of the operations a specification does not exercise.      *)
(***************************************************************************)
CalcIdle  == over_odds = 0 /\ under_odds = 0 /\ calc_out = None
NormIdle  == norm_in = <<>> /\ norm_out = None
MatchIdle == m_name = <<>> /\ m_candidates = <<>> /\ m_threshold = 0 /\ m_out = None
FuzzIdle  == fuzz = <<>>
EvIdle    ==
    /\ platform_props = <<>> /\ book_odds = <<>> /\ req = None /\ pc = "off"
    /\ all_props = <<>> /\ all_odds = <<>>
    /\ idx = 0 /\ ev_plays = <<>> /\ trace = <<>> /\ cache = None /\ response = None
    /\ served = 0
PriceIdle == price_win = RInt(0) /\ price_platform = "" /\ price_out = None
MidIdle   ==
    /\ pp_props = <<>> /\ ud_props = <<>> /\ mid_req = None /\ mid_cache = None
    /\ mid_response = None /\ mid_served = 0

KeyIdle   ==
    /\ env = <<>> /\ keys = <<>> /\ current_index = 0 /\ key_usage = <<>>
    /\ key_call = None /\ usage_pc = "off" /\ fetch = <<>>
DcIdle    == dcache = <<>> /\ now = 0 /\ in_flight = {} /\ answered = None
BotIdle   == bot_source = "" /\ bot_props = <<>> /\ bot_feed = <<>> /\ bot_out = None
ExtIdle   == KeyIdle /\ DcIdle /\ BotIdle

(***************************************************************************)
(* The inputs of the handlers.                                             *)
(***************************************************************************)
\* the sequences of at most n different elements of S
DistinctSeqs(S, n) ==
    UNION {{q \in [1..m -> S] : \A i, j \in 1..m : i # j => q[i] # q[j]} : m \in 0..n}

NewProp(id, player, stat, platform, line) ==
    [id |-> id, player_name |-> player, sport |-> "NBA", stat_type |-> stat,
     platform |-> platform, line |-> line]

(***************************************************************************)
(* SpecCalc: POST /api/calc on every pair of odds of OddsDomain.           *)
(***************************************************************************)
InitCalc ==
    /\ over_odds \in OddsDomain
    /\ under_odds \in OddsDomain
    /\ calc_out = None
    /\ NormIdle /\ MatchIdle /\ FuzzIdle /\ EvIdle /\ PriceIdle /\ MidIdle /\ ExtIdle

CallCalc ==
    /\ calc_out = None
    /\ calc_out' = Some(calculate_ev(over_odds, under_odds))
    /\ UNCHANGED <<over_odds, under_odds, normVars, matchVars, fuzz, extVars, evVars>>
    /\ UNCHANGED <<priceVars, midVars>>

NextCalc == CallCalc

SpecCalc == InitCalc /\ [][NextCalc]_vars

(***************************************************************************)
(* SpecNorm: normalize on every name of at most MaxNameLen characters over *)
(* NormAlphabet, and on a few longer names.                                *)
(***************************************************************************)
MaxNameLen == 7

NormAlphabet == {" ", "i", "v", "I"}

SampleNames ==
    { <<"L", "e", "B", "r", "o", "n", " ", "J", "a", "m", "e", "s", " ", "J", "r", ".">>,
      <<"l", "e", "b", "r", "o", "n", " ", "j", "a", "m", "e", "s">>,
      <<" ", "A", " ", "S", "r", ".", " ">>,
      <<"a", " ", "j", " ", "j", "r", ".", "r", ".">>,
      <<"a", " ", "j", " ", "s", "r", ".", "r", ".">> }

NormInputs ==
    SampleNames \cup UNION {[1..n -> NormAlphabet] : n \in 0..MaxNameLen}

InitNorm ==
    /\ norm_in \in NormInputs
    /\ norm_out = None
    /\ CalcIdle /\ MatchIdle /\ FuzzIdle /\ EvIdle /\ PriceIdle /\ MidIdle /\ ExtIdle

CallNormalize ==
    /\ norm_out = None
    /\ norm_out' = Some(normalize(norm_in))
    /\ UNCHANGED <<norm_in, calcVars, matchVars, fuzz, extVars, evVars, priceVars, midVars>>

NextNorm == CallNormalize

SpecNorm == InitNorm /\ [][NextNorm]_vars

(***************************************************************************)
(* SpecMatch: match_player on candidate lists of at most MaxCands names,   *)
(* under every assignment of scores of ScoreLevels to the pairs of         *)
(* different normalized names.                                             *)
(***************************************************************************)
MaxCands == 3

MatchNames == { <<"A", " ", "J", "r", ".">>, <<"b">> }

CandPool == { <<"a">>, <<"A", " ", "I", "I">>, <<"c">>, <<"d">> }

ScoreLevels == {0, 79, 80, 100}

Thresholds == {0, 80, 100, 101}

\* the score tables for a target: one score per different normalized candidate
FuzzTables(name, pool) ==
    [{<<normalize(name), normalize(c)>> : c \in {x \in pool : normalize(x) # normalize(name)}}
        -> ScoreLevels]

InitMatch ==
    /\ m_name \in MatchNames
    /\ m_candidates \in UNION {[1..n -> CandPool] : n \in 0..MaxCands}
    /\ m_threshold \in Thresholds
    /\ m_out = None
    /\ fuzz \in FuzzTables(m_name, CandPool)
    /\ CalcIdle /\ NormIdle /\ EvIdle /\ PriceIdle /\ MidIdle /\ ExtIdle

CallMatch ==
    /\ m_out = None
    /\ m_out' = Some(match_player(m_name, m_candidates, m_threshold))
    /\ UNCHANGED <<m_name, m_candidates, m_threshold, calcVars, normVars, fuzz, extVars,
                   evVars>>
    /\ UNCHANGED <<priceVars, midVars>>

NextMatch == CallMatch

SpecMatch == InitMatch /\ [][NextMatch]_vars

(***************************************************************************)
(* SpecEV: one GET /api/ev request on every list of at most MaxProps       *)
(* different props of PropPool and every feed of at most MaxOdds different *)
(* entries of OddsPool.                                                    *)
(***************************************************************************)
MaxProps == 2
MaxOdds  == 2

Name_A_Jr == <<"A", " ", "J", "r", ".">>
Name_a    == <<"a">>
Name_b    == <<"b">>
Name_bb   == <<"b", "b">>

PropPool ==
    { NewProp("pp1", Name_A_Jr, "Points", "prizepicks", 245),
      NewProp("ud1", Name_b, "points", "underdog", 250),
      NewProp("pp2", Name_A_Jr, "POINTS", "prizepicks", 245),
      NewProp("be1", Name_b, "Rebounds", "betr", 245) }

NewOdds(player, line, over, under, bookmaker, market, is_sharp) ==
    [player |-> player, line |-> line, over_odds |-> over, under_odds |-> under,
     bookmaker |-> bookmaker, market |-> market, is_sharp |-> is_sharp]

OddsPool ==
    { NewOdds(Name_a, 250, -140, 120, "draftkings", "player_points", TRUE),
      NewOdds(Name_a, 245, 120, -140, "betmgm", "player_points", FALSE),
      NewOdds(Name_a, 255, -125, 100, "fanduel", "player_points", TRUE),
      NewOdds(Name_a, 245, 0, 0, "caesars", "player_points", FALSE),
      NewOdds(Name_bb, 250, -110, -110, "draftkings", "player_points", TRUE),
      NewOdds(Name_bb, 245, 130, -150, "pointsbet", "player_rebounds", FALSE) }

NewRequest(platform, min_ev, min_win, refresh) ==
    [platform |-> platform, min_ev |-> min_ev, min_win |-> min_win, refresh |-> refresh]

Requests ==
    { NewRequest(None, 0, 5400, FALSE),
      NewRequest(Some("UNDERDOG"), 0, 5400, TRUE),
      NewRequest(None, -500, 5000, FALSE) }

\* the scores of the pairs of different normalized names of the pools: "a"
\* and "bb" share no character and score 0, "b" scores 0 or 90 against the
\* names of the feed
EvFuzzTables ==
    { [pair \in { <<Name_a, Name_bb>>, <<Name_b, Name_a>>, <<Name_b, Name_bb>> } |->
          IF pair[1] = Name_a THEN 0 ELSE sc] : sc \in {0, 90} }

InitEV ==
    /\ platform_props \in DistinctSeqs(PropPool, MaxProps)
    /\ book_odds \in DistinctSeqs(OddsPool, MaxOdds)
    /\ fuzz \in EvFuzzTables
    /\ req = None /\ pc = "idle" /\ all_props = <<>> /\ all_odds = <<>>
    /\ idx = 0 /\ ev_plays = <<>> /\ trace = <<>>
    /\ cache = None /\ response = None /\ served = 0
    /\ CalcIdle /\ NormIdle /\ MatchIdle /\ PriceIdle /\ MidIdle /\ ExtIdle

NextEV ==
    \/ \E r \in Requests : EvRequestFresh(r)
    \/ AnalyzeProp
    \/ EvFinish

SpecEV == InitEV /\ [][NextEV]_vars

(***************************************************************************)
(* SpecEVRepeat: at most MaxEvRequests GET /api/ev requests, one after the *)
(* other, on every list of at most MaxProps different props of PropPool    *)
(* and the feeds of RepeatFeeds; the fetched data stay the same from one   *)
(* request to the next.                                                    *)
(***************************************************************************)
RepeatFeeds ==
    { << NewOdds(Name_a, 250, -140, 120, "draftkings", "player_points", TRUE),
         NewOdds(Name_bb, 245, 130, -150, "pointsbet", "player_rebounds", FALSE) >>,
      << NewOdds(Name_a, 245, 0, 0, "caesars", "player_points", FALSE),
         NewOdds(Name_bb, 250, -110, -110, "draftkings", "player_points", TRUE) >> }

\* "b" scores 90 against the names of the feed
RepeatFuzz ==
    [pair \in { <<Name_a, Name_bb>>, <<Name_b, Name_a>>, <<Name_b, Name_bb>> } |->
        IF pair[1] = Name_a THEN 0 ELSE 90]

InitEVRepeat ==
    /\ platform_props \in DistinctSeqs(PropPool, MaxProps)
    /\ book_odds \in RepeatFeeds
    /\ fuzz = RepeatFuzz
    /\ req = None /\ pc = "idle" /\ all_props = <<>> /\ all_odds = <<>>
    /\ idx = 0 /\ ev_plays = <<>> /\ trace = <<>>
    /\ cache = None /\ response = None /\ served = 0
    /\ CalcIdle /\ NormIdle /\ MatchIdle /\ PriceIdle /\ MidIdle /\ ExtIdle

NextEVRepeat ==
    \/ \E r \in Requests : EvRequestFresh(r)
    \/ \E r \in Requests : EvRequestCached(r)
    \/ AnalyzeProp
    \/ EvFinish
    \/ EvReturn

SpecEVRepeat == InitEVRepeat /\ [][NextEVRepeat]_vars

(***************************************************************************)
(* SpecPrice: the pricing of a play (src/api.py:1214-1233) on every win     *)
(* probability from 50.00 to 50.00 + MaxWinSpan / 100 in steps of 0.005,   *)
(* for every platform of PricePlatforms.                                   *)
(***************************************************************************)
MaxWinSpan == 1010

\* chalkboard is the platform of fetch_chalkboard, which has no BREAKEVEN entry
PricePlatforms == {"prizepicks", "underdog", "sleeper", "betr", "chalkboard"}

PriceWins == {Rat(n, 200) : n \in 10000..(10000 + 2 * MaxWinSpan)}

\* a plausible slip: the slip types are always looked up in the prizepicks table
price_play_pp_slips(win_prob, platform) ==
    [win_probability |-> Round2(win_prob),
     ev_percentage   |-> Round2(ev_pct_of(win_prob, platform)),
     best_for        |-> get_best_slip_types(win_prob, "prizepicks")]

\* the fields of a play that depend on win_prob and the platform only
price_play(win_prob, platform) ==
    [win_probability |-> Round2(win_prob),
     ev_percentage   |-> Round2(ev_pct_of(win_prob, platform)),
     best_for        |-> get_best_slip_types(win_prob, platform)]

InitPrice ==
    /\ price_win \in PriceWins
    /\ price_platform \in PricePlatforms
    /\ price_out = None
    /\ CalcIdle /\ NormIdle /\ MatchIdle /\ FuzzIdle /\ EvIdle /\ MidIdle /\ ExtIdle

PricePlay ==
    /\ price_out = None
    /\ price_out' = Some(price_play(price_win, price_platform))
    /\ UNCHANGED <<price_win, price_platform>>
    /\ UNCHANGED <<calcVars, normVars, matchVars, fuzz, extVars, evVars, midVars>>

NextPrice == PricePlay

SpecPrice == InitPrice /\ [][NextPrice]_vars

(***************************************************************************)
(* SpecMiddles: at most MaxMidRequests GET /api/middles requests on every  *)
(* pair of lists of at most MaxMidProps different props of MidPPPool and   *)
(* MidUDPool.                                                              *)
(***************************************************************************)
MaxMidProps == 2

Name_A_sp == <<"A", " ">>

MidPPPool ==
    { NewProp("pp_1", Name_A_sp, "Points", "prizepicks", 75),
      NewProp("pp_2", <<"a">>, "points", "prizepicks", 50),
      NewProp("pp_3", <<"b">>, "Points", "prizepicks", 65),
      NewProp("pp_4", <<"b">>, "points", "prizepicks", -15) }

MidUDPool ==
    { NewProp("ud_1", <<"a">>, "Points", "underdog", 55),
      NewProp("ud_2", <<"a">>, "points", "underdog", 75),
      NewProp("ud_3", <<"b">>, "points", "underdog", 67),
      NewProp("ud_4", <<"B">>, "Points", "underdog", 5) }

NewMidRequest(min_spread, refresh) == [min_spread |-> min_spread, refresh |-> refresh]

MidRequests ==
    { NewMidRequest(5, FALSE), NewMidRequest(2, FALSE), NewMidRequest(0, FALSE),
      NewMidRequest(5, TRUE) }

InitMiddles ==
    /\ pp_props \in DistinctSeqs(MidPPPool, MaxMidProps)
    /\ ud_props \in DistinctSeqs(MidUDPool, MaxMidProps)
    /\ mid_req = None /\ mid_cache = None /\ mid_response = None /\ mid_served = 0
    /\ CalcIdle /\ NormIdle /\ MatchIdle /\ FuzzIdle /\ EvIdle /\ PriceIdle /\ ExtIdle

NextMiddles ==
    \/ \E r \in MidRequests : MiddlesFresh(r)
    \/ \E r \in MidRequests : MiddlesCached(r)

SpecMiddles == InitMiddles /\ [][NextMiddles]_vars

(***************************************************************************)
(* Claims about calculate_no_vig (SpecCalc).                               *)
(***************************************************************************)
CalcDone   == calc_out # None
CalcResult == calc_out[1].result

\* |x - h/100| <= 0.1
Within01(x, h) == RLeq(RAbs(RSub(x, Hundredths(h))), Rat(1, 10))

\* C1: for every pair of odds (o, u) with o # 0 and u # 0, calculate_no_vig
\* returns two probabilities that are both > 0 and sum to 100 within 0.01.
C1_NoVigPositiveSum100 ==
    (CalcDone /\ over_odds # 0 /\ under_odds # 0) =>
        /\ CalcResult.status = "ok"
        /\ RLess(RInt(0), CalcResult.over)
        /\ RLess(RInt(0), CalcResult.under)
        /\ RLeq(RAbs(RSub(RAdd(CalcResult.over, CalcResult.under), RInt(100))),
                Rat(1, 100))

C1_Witness ==
    /\ CalcDone /\ over_odds = -110 /\ under_odds = 120
    /\ CalcResult.status = "ok"
    /\ RLess(CalcResult.under, CalcResult.over)

\* C2 as stated: calculate_no_vig(-140, +120) returns over = 58.33 and
\* under = 41.67, each within 0.1.
C2_Original ==
    (CalcDone /\ over_odds = -140 /\ under_odds = 120) =>
        /\ CalcResult.status = "ok"
        /\ Within01(CalcResult.over, 5833)
        /\ Within01(CalcResult.under, 4167)

\* C2 amended: calculate_no_vig(-140, +120) returns over = 56.20 and
\* under = 43.80, each within 0.1 (58.33 is the implied probability of -140
\* before the vig is removed).
C2_NoVigMinus140Plus120 ==
    (CalcDone /\ over_odds = -140 /\ under_odds = 120) =>
        /\ CalcResult.status = "ok"
        /\ Within01(CalcResult.over, 5620)
        /\ Within01(CalcResult.under, 4380)

C2_Witness ==
    /\ CalcDone /\ over_odds = -140 /\ under_odds = 120
    /\ calc_out[1].http.status = 200
    /\ calc_out[1].http.over_probability = 5620
    /\ calc_out[1].http.under_probability = 4380

\* C3: calculate_no_vig rejects an odds value of exactly 0 on either side
\* with an explicit error: it neither returns probabilities nor fails on a
\* division by zero.
C3_ZeroOddsRejected ==
    (CalcDone /\ (over_odds = 0 \/ under_odds = 0)) =>
        /\ CalcResult.status = "raise"
        /\ CalcResult.error # "ZeroDivisionError"

\* C20: for every odds value o # 0, calculate_no_vig(o, o) returns exactly
\* 50 / 50 (for instance on -110 / -110).
C20_SymmetricOddsGiveFiftyFifty ==
    (CalcDone /\ over_odds = under_odds /\ over_odds # 0) =>
        /\ CalcResult.status = "ok"
        /\ CalcResult.over = RInt(50)
        /\ CalcResult.under = RInt(50)
        /\ calc_out[1].http.over_probability = 5000
        /\ calc_out[1].http.under_probability = 5000

C20_Witness ==
    /\ CalcDone /\ over_odds = -110 /\ under_odds = -110
    /\ CalcResult.status = "ok"
    /\ CalcResult.over = RInt(50) /\ CalcResult.under = RInt(50)
    /\ calc_out[1].http.vig_percentage = 0

(***************************************************************************)
(* Claims about normalize (SpecNorm).                                      *)
(***************************************************************************)
\* C7: normalize returns a string for every input ('' for ''), and its
\* result contains no occurrence of any of the suffix substrings.
C7_NoSuffixRemains ==
    (norm_out # None) =>
        /\ norm_out[1] \in Seq(STRING)
        /\ (norm_in = <<>> => norm_out[1] = <<>>)
        /\ ~ContainsSuffix(norm_out[1])

(***************************************************************************)
(* Claims about match_player (SpecMatch).                                  *)
(***************************************************************************)
MatchDone   == m_out # None
MatchResult == m_out[1]

\* the score the loop computes for candidate k
CandScore(k) == score(normalize(m_name), normalize(m_candidates[k]))

MaxOf(S) == CHOOSE x \in S : \A y \in S : y <= x
MinOf(S) == CHOOSE x \in S : \A y \in S : x <= y

\* C5: match_player returns the first candidate in input order whose score
\* equals the maximum score when that maximum is >= threshold, and none
\* exactly when the list is empty or no candidate's score is >= threshold.
C5_FirstArgmaxOverThreshold ==
    MatchDone =>
        LET n    == Len(m_candidates)
            best == MaxOf({CandScore(k) : k \in 1..n})
        IN  IF n > 0 /\ best >= m_threshold
            THEN MatchResult =
                     Some(m_candidates[MinOf({k \in 1..n : CandScore(k) = best})])
            ELSE MatchResult = None

\* C6: when some candidate's normalized form equals the normalized target,
\* match_player returns a non-none result for every threshold <= 100, and the
\* result is one of the candidates in its original spelling.
C6_EqualNormalizedMatches ==
    (/\ MatchDone
     /\ m_threshold <= 100
     /\ \E k \in 1..Len(m_candidates) : normalize(m_candidates[k]) = normalize(m_name))
    => /\ MatchResult # None
       /\ \E k \in 1..Len(m_candidates) : MatchResult[1] = m_candidates[k]

C6_Witness ==
    /\ MatchDone
    /\ m_name = <<"A", " ", "J", "r", ".">>
    /\ m_threshold = 100
    /\ m_candidates = << <<"c">>, <<"A", " ", "I", "I">>, <<"a">> >>
    /\ fuzz[<< <<"a">>, <<"c">> >>] = 79
    /\ MatchResult = Some(<<"A", " ", "I", "I">>)

(***************************************************************************)
(* Claims about GET /api/ev (SpecEV).                                      *)
(***************************************************************************)
\* the iterations of the loop that have run
Analysed == 1..Len(trace)

\* the plays the iterations appended
EmittedPlays == {trace[k].play[1] : k \in {i \in Analysed : trace[i].play # None}}

\* the plays of the handler's list and of its response are appended plays
PlaysComeFromLoop ==
    /\ \A i \in 1..Len(ev_plays) : ev_plays[i] \in EmittedPlays
    /\ response # None =>
           \A i \in 1..Len(response[1].plays) : response[1].plays[i] \in EmittedPlays

Mapped(prop) == prop.stat_type \in DOMAIN PROP_MAPPINGS

\* C4: no exception escapes the evaluation of a single prop inside the
\* /api/ev loop: for every odds record, one with over and under odds both 0
\* included, the loop emits a play or skips the prop and goes on with the
\* remaining props.
C4_NoExceptionEscapesLoop ==
    /\ pc # "error"
    /\ \A k \in Analysed : trace[k].kind # "raise"

\* C8: a prop whose stat label has no exact, case-sensitive entry in
\* PROP_MAPPINGS never produces a play and never raises; the sportsbook entry
\* of every emitted play belongs to the market the prop's stat label maps to.
C8_UnmappedNeverPlays ==
    /\ PlaysComeFromLoop
    /\ \A k \in Analysed :
          LET t == trace[k]
          IN  /\ ~Mapped(t.prop) =>
                    /\ t.play = None
                    /\ t.used = 0
                    /\ t.kind # "raise"
                    /\ ~(pc = "error" /\ k = Len(trace))
              /\ t.play # None =>
                    /\ Mapped(t.prop)
                    /\ t.play[1].prop = t.prop
                    /\ t.used \in 1..Len(all_odds)
                    /\ all_odds[t.used].market = PROP_MAPPINGS[t.prop.stat_type]
                    /\ t.play[1].sharp_odds.bookmaker = all_odds[t.used].bookmaker
                    /\ t.play[1].sharp_odds.line = all_odds[t.used].line

C8_Witness ==
    /\ pc = "done"
    /\ platform_props = << NewProp("pp2", Name_A_Jr, "POINTS", "prizepicks", 245),
                           NewProp("be1", Name_b, "Rebounds", "betr", 245) >>
    /\ Len(book_odds) = 2
    /\ book_odds[1].market = "player_points"
    /\ book_odds[2].market = "player_rebounds"
    /\ Len(trace) = 2
    /\ trace[1].kind = "unmapped" /\ trace[1].play = None
    /\ trace[2].play # None
    /\ all_odds[trace[2].used].market = "player_rebounds"
    /\ response[1].count = 1

\* entry j of all_odds is of the prop's market, carries the matched name, and
\* its line is within 0.5 of the prop's line (lines are in tenths)
Qualifies(t, j) ==
    /\ all_odds[j].market = PROP_MAPPINGS[t.prop.stat_type]
    /\ all_odds[j].player = t.matched[1]
    /\ Abs(all_odds[j].line - t.prop.line) <= 5

\* C9: the sportsbook entry used for a prop is the first entry, in the order
\* "is_sharp entries first, otherwise input order", whose player equals the
\* fuzzy-matched name and whose line differs from the prop's line by at most
\* 0.5 (0.5 included); a non-sharp entry is used only when no sharp entry
\* satisfies both conditions, and the prop is skipped when no entry does.
C9_FirstQualifyingSharpFirst ==
    \A k \in Analysed :
        LET t         == trace[k]
            qualified == {j \in 1..Len(all_odds) : Qualifies(t, j)}
            sharp     == {j \in qualified : all_odds[j].is_sharp}
        IN  IF ~Mapped(t.prop) \/ t.matched = None \/ t.matched = Some(<<>>)
            THEN t.used = 0 /\ t.play = None
            ELSE IF qualified = {}
            THEN t.used = 0 /\ t.play = None /\ t.kind = "no_line"
            ELSE IF sharp # {}
            THEN t.used = MinOf(sharp)
            ELSE t.used = MinOf(qualified)

C9_Witness ==
    /\ platform_props = << NewProp("pp1", Name_A_Jr, "Points", "prizepicks", 245) >>
    /\ Len(book_odds) = 2
    /\ ~book_odds[1].is_sharp /\ book_odds[1].player = Name_a /\ book_odds[1].line = 245
    /\ book_odds[2].is_sharp /\ book_odds[2].player = Name_a /\ book_odds[2].line = 250
    /\ book_odds[1].over_odds # 0
    /\ Len(trace) = 1
    /\ trace[1].matched = Some(Name_a)
    /\ trace[1].used = 2
    /\ trace[1].play # None
    /\ trace[1].play[1].sharp_odds.bookmaker = "draftkings"

\* C10: for every emitted play, recommended_play is OVER exactly when the
\* no-vig over probability is strictly greater than the under probability and
\* UNDER otherwise (an exact tie included), and win_probability is the
\* maximum of the two probabilities, hence never below 50.
C10_RecommendedSideIsTheLarger ==
    /\ PlaysComeFromLoop
    /\ \A k \in Analysed :
          trace[k].play # None =>
              LET play  == trace[k].play[1]
                  entry == all_odds[trace[k].used]
                  nv    == calculate_no_vig(entry.over_odds, entry.under_odds)
              IN  /\ nv.status = "ok"
                  /\ play.recommended_play = "OVER" <=> RLess(nv.under, nv.over)
                  /\ play.recommended_play = "UNDER" <=> RLeq(nv.over, nv.under)
                  /\ play.win_probability = Round2(RMax(nv.over, nv.under))
                  /\ play.win_probability =
                         MaxOf({play.sharp_odds.over_probability,
                                play.sharp_odds.under_probability})
                  /\ play.win_probability >= 5000

C10_Witness ==
    /\ platform_props = << NewProp("ud1", Name_b, "points", "underdog", 250) >>
    /\ Len(trace) = 1
    /\ trace[1].play # None
    /\ all_odds[trace[1].used].over_odds = -110
    /\ all_odds[trace[1].used].under_odds = -110
    /\ trace[1].play[1].sharp_odds.over_probability = 5000
    /\ trace[1].play[1].sharp_odds.under_probability = 5000
    /\ trace[1].play[1].recommended_play = "UNDER"
    /\ trace[1].play[1].win_probability = 5000
    /\ response # None /\ response[1].count = 1

(***************************************************************************)
(* Claims about the pricing of a play (SpecPrice).                         *)
(***************************************************************************)
\* the 'default' break-even of the tables of src/api.py:273-294, in hundredths
TableDefault(platform) ==
    CASE platform = "prizepicks" -> 5434
      [] platform = "underdog"   -> 5238
      [] platform = "sleeper"    -> 5400
      [] platform = "betr"       -> 5400
      [] OTHER                   -> 5434

\* C11: ev_percentage of a play equals the win probability minus the
\* 'default' break-even of the prop's platform in BREAKEVEN, and minus 54.34
\* when the platform has no BREAKEVEN entry (win probability 56 on prizepicks
\* gives 1.66); the play carries the difference rounded to two decimals.
C11_EvIsWinMinusDefaultBreakeven ==
    price_out # None =>
        LET exact == RSub(price_win, Hundredths(TableDefault(price_platform)))
        IN  /\ RLeq(RAbs(RSub(Hundredths(price_out[1].ev_percentage), exact)),
                    Rat(1, 200))
            /\ price_win[2] \in {1, 2, 4, 5, 10, 20, 25, 50, 100} =>
                   Hundredths(price_out[1].ev_percentage) = exact

C11_Witness ==
    /\ price_out # None
    /\ price_win = RInt(56)
    /\ price_platform = "prizepicks"
    /\ price_out[1].ev_percentage = 166
    /\ price_out[1].win_probability = 5600

\* the slip types of a platform's table without 'default', with their
\* break-evens in hundredths; a platform without a table has the prizepicks
\* table
TableSlips(platform) ==
    CASE platform = "underdog" ->
             {<<"5_leg", 5238>>, <<"4_leg", 5357>>, <<"3_leg", 5556>>, <<"2_leg", 6000>>}
      [] platform \in {"sleeper", "betr"} -> {}
      [] OTHER ->
             {<<"5_flex", 5434>>, <<"6_flex", 5434>>, <<"4_power", 5623>>,
              <<"2_power", 5774>>}

\* C13: best_for of a play is exactly the set of non-'default' slip types in
\* the prop platform's break-even table whose threshold is <= the win
\* probability; a platform without a table uses the prizepicks table.
C13_BestForIsThePlusEvSlips ==
    price_out # None =>
        LET best_for == price_out[1].best_for
        IN  /\ {best_for[i] : i \in 1..Len(best_for)} =
                   {kv[1] : kv \in {x \in TableSlips(price_platform) :
                                        RLeq(Hundredths(x[2]), price_win)}}
            /\ \A i, j \in 1..Len(best_for) : i # j => best_for[i] # best_for[j]

C13_Witness ==
    /\ price_out # None
    /\ price_win = RInt(56)
    /\ price_platform = "chalkboard"
    /\ price_out[1].best_for = <<"5_flex", "6_flex">>

(***************************************************************************)
(* Claims about the thresholds of GET /api/ev (SpecEV).                    *)
(***************************************************************************)
\* the entry the inner loop stops at: the first sharp qualifying entry,
\* else the first qualifying entry, 0 when there is none
SelectedEntry(t) ==
    LET qualified == {j \in 1..Len(all_odds) : Qualifies(t, j)}
        sharp     == {j \in qualified : all_odds[j].is_sharp}
    IN  IF ~Mapped(t.prop) \/ t.matched = None \/ t.matched = Some(<<>>) THEN 0
        ELSE IF qualified = {} THEN 0
        ELSE IF sharp # {} THEN MinOf(sharp) ELSE MinOf(qualified)

\* entry j yields win probability >= min_win and EV percentage >= min_ev for
\* the prop of t
MeetsThresholds(t, j) ==
    LET nv  == calculate_no_vig(all_odds[j].over_odds, all_odds[j].under_odds)
        win == RMax(nv.over, nv.under)
        ev  == RSub(win, Hundredths(TableDefault(t.prop.platform)))
    IN  /\ nv.status = "ok"
        /\ RLeq(Hundredths(req[1].min_win), win)
        /\ RLeq(Hundredths(req[1].min_ev), ev)

\* C12: the analysis emits at most one play per prop, and emits it exactly
\* when the selected sportsbook entry yields win probability >= min_win and
\* EV percentage >= min_ev; when the selected entry fails either threshold no
\* later entry is tried for that prop.
C12_OnePlayPerPropOnThresholds ==
    /\ PlaysComeFromLoop
    /\ \A i, j \in 1..Len(ev_plays) : i # j => ev_plays[i].prop # ev_plays[j].prop
    /\ \A k \in Analysed :
          LET t == trace[k]
              j == SelectedEntry(t)
          IN  /\ t.play # None <=> (j # 0 /\ MeetsThresholds(t, j))
              /\ t.play # None =>
                     /\ t.play[1].prop = t.prop
                     /\ t.used = j
                     /\ t.play[1].sharp_odds.bookmaker = all_odds[j].bookmaker
                     /\ t.play[1].sharp_odds.over_odds = all_odds[j].over_odds

C12_Witness ==
    /\ pc = "done"
    /\ req[1].min_win = 5400 /\ req[1].min_ev = 0
    /\ platform_props = << NewProp("ud1", Name_b, "points", "underdog", 250) >>
    /\ Len(all_odds) = 2
    /\ Len(trace) = 1
    /\ trace[1].used = 1
    /\ trace[1].play = None
    /\ ~MeetsThresholds(trace[1], 1)
    /\ Qualifies(trace[1], 2)
    /\ MeetsThresholds(trace[1], 2)
    /\ response[1].count = 0

(***************************************************************************)
(* Claims about GET /api/middles (SpecMiddles).                            *)
(***************************************************************************)
\* the middles of the last response
Returned == mid_response.middles

MidAnswered == mid_req # None

\* the fetched props of a platform
PropsOf(name) == IF name = "prizepicks" THEN pp_props ELSE ud_props

\* the platform called name has a prop of m's player and stat with that line
HasLine(m, name, line) ==
    \E i \in 1..Len(PropsOf(name)) :
        /\ key(PropsOf(name)[i])[1] = Strip(Lower(m.player_name))
        /\ key(PropsOf(name)[i])[2] = LowerLabel(m.stat_type)
        /\ PropsOf(name)[i].line = line

\* C14: for every emitted middle, spread = |line_A - line_B| >= min_spread,
\* platform_a is the platform with the higher line and is recommended UNDER,
\* and platform_b is the platform with the lower line and is recommended
\* OVER; a pair whose spread is below min_spread is never emitted.
C14_HigherLineUnderLowerLineOver ==
    MidAnswered =>
        \A i \in 1..Len(Returned) :
            LET m == Returned[i]
            IN  /\ m.spread = Abs(m.platform_a.line - m.platform_b.line)
                /\ m.spread >= mid_req[1].min_spread
                /\ m.platform_a.line > m.platform_b.line
                /\ {m.platform_a.name, m.platform_b.name} = {"prizepicks", "underdog"}
                /\ HasLine(m, m.platform_a.name, m.platform_a.line)
                /\ HasLine(m, m.platform_b.name, m.platform_b.line)
                /\ m.platform_a.recommended = "UNDER"
                /\ m.platform_b.recommended = "OVER"

\* C15: for every emitted middle, every value of middle_zone lies strictly
\* between the lower and the higher line, for all pairs of lines, integer
\* lines and gaps smaller than 1 included.
C15_MiddleZoneStrictlyBetween ==
    MidAnswered =>
        \A i \in 1..Len(Returned) :
            LET m == Returned[i]
            IN  \A k \in 1..Len(m.middle_zone) :
                    /\ m.platform_b.line < m.middle_zone[k]
                    /\ m.middle_zone[k] < m.platform_a.line

\* floor(x), in units, of a number of tenths
Floor(x) == x \div 10

\* C16: for every pair of lines, negative and integer lines included,
\* middle_zone is the list of the integers from floor(low) + 1 to floor(high),
\* and the single value low + 0.5 when that range is empty; the lines 7.5 and
\* 5.5 give [6, 7].
C16_MiddleZoneIsFloorRange ==
    MidAnswered =>
        \A i \in 1..Len(Returned) :
            LET m     == Returned[i]
                low   == m.platform_b.line
                high  == m.platform_a.line
                first == Floor(low) + 1
                last  == Floor(high)
            IN  m.middle_zone =
                    IF first > last THEN <<low + 5>>
                    ELSE [k \in 1..(last - first + 1) |-> 10 * (first + k - 1)]

\* C18: the middles returned by /api/middles are ordered by non-increasing
\* spread, on the fresh path and on the cache-hit path.
C18_MiddlesSortedBySpread ==
    /\ MidAnswered =>
           \A i, j \in 1..Len(Returned) : i < j => Returned[i].spread >= Returned[j].spread
    /\ mid_cache # None =>
           \A i, j \in 1..Len(mid_cache[1]) :
               i < j => mid_cache[1][i].spread >= mid_cache[1][j].spread

C18_Witness ==
    /\ mid_served = 2
    /\ mid_response.cached
    /\ Len(Returned) = 2
    /\ Returned[1].spread = 20 /\ Returned[2].spread = 2
    /\ key(pp_props[1])[1] = <<"b">>
    /\ Returned[1].player_name = Name_A_sp
    /\ Returned[1].middle_zone = <<60, 70>>

(***************************************************************************)
(* Claims about repeated GET /api/ev requests (SpecEVRepeat).              *)
(***************************************************************************)
\* C17: the plays returned by /api/ev are ordered by non-increasing
\* ev_percentage, on the fresh path and on the cache-hit path, after the
\* filters are applied.
C17_PlaysSortedByEv ==
    /\ (response # None /\ pc \in {"done", "idle"}) =>
           \A i, j \in 1..Len(response[1].plays) :
               i < j => response[1].plays[i].ev_percentage
                            >= response[1].plays[j].ev_percentage
    /\ cache # None =>
           \A i, j \in 1..Len(cache[1]) :
               i < j => cache[1][i].ev_percentage >= cache[1][j].ev_percentage

C17_Witness ==
    /\ pc = "done" /\ served = 1
    /\ platform_props = << NewProp("pp1", Name_A_Jr, "Points", "prizepicks", 245),
                           NewProp("be1", Name_b, "Rebounds", "betr", 245) >>
    /\ "cached" \in DOMAIN response[1]
    /\ response[1].cached
    /\ response[1].count = 2
    /\ response[1].plays[1].prop.id = "be1"
    /\ response[1].plays[1].ev_percentage = 398
    /\ response[1].plays[2].ev_percentage = 186

\* the loop of a request on an empty cache, from prop k on: the plays it
\* appends, or <<"raise">> when an iteration raises
RECURSIVE loop_plays(_, _, _, _)
loop_plays(props, odds, r, k) ==
    IF k > Len(props) THEN [status |-> 200, plays |-> <<>>]
    ELSE LET out == analyze_prop(props[k], odds, r.min_win, r.min_ev)
         IN  IF out.kind = "raise" THEN [status |-> 500, plays |-> <<>>]
             ELSE LET rest == loop_plays(props, odds, r, k + 1)
                  IN  IF rest.status = 500 THEN rest
                      ELSE [status |-> 200,
                            plays  |-> (IF out.play # None THEN out.play ELSE <<>>)
                                           \o rest.plays]

\* what request r returns on the fetched data when no earlier request has
\* left anything behind
run_on_empty_cache(r) ==
    LET props == all_props_of(r)
        odds  == all_odds_of(props)
    IN  IF props = <<>> \/ odds = <<>> THEN [status |-> 200, plays |-> <<>>]
        ELSE LET out == loop_plays(props, odds, r, 1)
             IN  IF out.status = 500 THEN out
                 ELSE [status |-> 200, plays |-> filter_plays(sort_by_ev(out.plays), r)]

\* C19: running the EV analysis twice on identical prop and odds inputs with
\* identical parameters produces identical output; the result of a run does
\* not depend on state left behind by an earlier run.
C19_RunIndependentOfEarlierRuns ==
    (pc \in {"done", "error"}) =>
        /\ response[1].status = run_on_empty_cache(req[1]).status
        /\ response[1].plays = run_on_empty_cache(req[1]).plays

(***************************************************************************)
(* Claims about what the handlers cache (SpecEVRepeat, SpecMiddles).       *)
(***************************************************************************)
\* what a request r without a cache hit stores under ev_<sport>, None when
\* it returns or fails before the store
stored_by(r) ==
    LET props == all_props_of(r)
        odds  == all_odds_of(props)
    IN  IF props = <<>> \/ odds = <<>> THEN None
        ELSE LET out == loop_plays(props, odds, r, 1)
             IN  IF out.status = 500 THEN None ELSE Some(sort_by_ev(out.plays))

\* C22: the entry /api/ev stores in the cache is unfiltered, that is, it does
\* not depend on the storing request's platform, min_ev and min_win; hence on
\* unchanged upstream data a cache hit returns exactly the plays a fresh
\* computation with the hitting request's parameters would return.
C22_EvCacheEntryIsUnfiltered ==
    /\ cache # None =>
           \A r \in Requests : stored_by(r) # None => stored_by(r) = cache
    /\ (pc = "done" /\ "cached" \in DOMAIN response[1] /\ response[1].cached) =>
           LET fresh == run_on_empty_cache(req[1])
           IN  fresh.status = 200 /\ fresh.plays = response[1].plays

\* C23: the entry /api/middles stores in the cache is the unfiltered result,
\* as if min_spread were 0; hence a cache hit with any min_spread returns
\* exactly the middles a fresh computation with that min_spread would return
\* on the same upstream data.
C23_MiddlesCacheEntryIsUnfiltered ==
    /\ mid_cache # None =>
           mid_cache[1] = fresh_middles(NewMidRequest(0, TRUE))
    /\ (MidAnswered /\ mid_response.cached) =>
           Returned = filter_spread(fresh_middles(mid_req[1]), mid_req[1].min_spread)

(***************************************************************************)
(* Claims about the grouping of /api/middles (SpecMiddles).                *)
(***************************************************************************)
\* the key of a returned middle, from the fields it carries
MiddleKey(m) == <<Strip(Lower(m.player_name)), LowerLabel(m.stat_type), LowerLabel(m.sport)>>

\* the positions in props of the props of key k
WithKey(props, k) == {i \in 1..Len(props) : key(props[i]) = k}

\* the line the middle m quotes for the platform called name
QuotedLine(m, name) ==
    IF m.platform_a.name = name THEN m.platform_a.line ELSE m.platform_b.line

\* C30: at most one middle is emitted per (lower-cased trimmed player,
\* lower-cased stat, sport) key; when a platform's list holds several props
\* of one key only the last one in input order is compared, and a key
\* present on one platform only emits nothing.
C30_OneMiddlePerKeyLastPropWins ==
    MidAnswered =>
        /\ \A i, j \in 1..Len(Returned) :
               i # j => MiddleKey(Returned[i]) # MiddleKey(Returned[j])
        /\ \A i \in 1..Len(Returned) :
               LET m  == Returned[i]
                   pp == WithKey(pp_props, MiddleKey(m))
                   ud == WithKey(ud_props, MiddleKey(m))
               IN  /\ pp # {} /\ ud # {}
                   /\ {m.platform_a.name, m.platform_b.name} = {"prizepicks", "underdog"}
                   /\ QuotedLine(m, "prizepicks") = pp_props[MaxOf(pp)].line
                   /\ QuotedLine(m, "underdog") = ud_props[MaxOf(ud)].line
                   /\ m.player_name = pp_props[MaxOf(pp)].player_name
                   /\ m.stat_type = pp_props[MaxOf(pp)].stat_type

C30_Witness ==
    /\ MidAnswered /\ ~mid_response.cached
    /\ Len(pp_props) = 2
    /\ key(pp_props[1]) = key(pp_props[2])
    /\ pp_props[1].line = 75 /\ pp_props[2].line = 50
    /\ Len(ud_props) = 2
    /\ ud_props[1].line = 55
    /\ key(ud_props[1]) = key(pp_props[1])
    /\ key(ud_props[2]) # key(pp_props[1])
    /\ Len(Returned) = 1
    /\ Returned[1].platform_b.name = "prizepicks"
    /\ Returned[1].platform_b.line = 50
    /\ Returned[1].spread = 5

(***************************************************************************)
(* Claims about best_for of a play with a non-negative EV (SpecPrice).     *)
(***************************************************************************)
\* win_prob as the loop of get_ev_plays has it: a value calculate_no_vig
\* rounded to two decimals
InHundredths(win_prob) == win_prob[2] \in {1, 2, 4, 5, 10, 20, 25, 50, 100}

MaxBackupKeys == 2

\* bool(x) of an Optional string: None and "" are false
truthy(x) == x # None /\ x[1] # <<>>

\* the loop over the numbered backup keys, from ODDS_API_KEY_<i> on
RECURSIVE load_backup_keys(_, _, _)
load_backup_keys(e, i, ks) ==
    IF i > MaxBackupKeys THEN ks
    ELSE IF truthy(e[i])
         THEN LET k == Strip(e[i][1])
              IN  IF \E j \in 1..Len(ks) : ks[j] = k
                  THEN load_backup_keys(e, i + 1, ks)
                  ELSE load_backup_keys(e, i + 1, Append(ks, k))
         ELSE load_backup_keys(e, i + 1, ks)

\* the keys __init__ and reload_keys load from the environment e
load_keys(e) ==
    load_backup_keys(e, 1, IF truthy(e[0]) THEN <<Strip(e[0][1])>> ELSE <<>>)

\* the property current_key; "IndexError" where keys[current_index] raises
current_key(ks, i) ==
    IF ks = <<>> THEN None
    ELSE IF i + 1 \in DOMAIN ks THEN Some(ks[i + 1]) ELSE Some(<<"IndexError">>)

\* rotate_key: the value returned, the new current_index, and the number of
\* "[API Keys] Rotated from key .. to key .." lines printed
rotate_key(ks, i) ==
    IF Len(ks) <= 1
    THEN [ret |-> FALSE, current_index |-> i, rotated |-> 0]
    ELSE LET new == (i + 1) % Len(ks)
         IN  IF new = i
             THEN [ret |-> FALSE, current_index |-> new, rotated |-> 0]
             ELSE [ret |-> TRUE, current_index |-> new, rotated |-> 1]

\* current_key[:8]
preview(k) == SubSeq(k, 1, IF Len(k) < 8 THEN Len(k) ELSE 8)

\* key_usage[name] = value
DictSet(dict, name, value) ==
    IF \E j \in 1..Len(dict) : dict[j][1] = name
    THEN [j \in 1..Len(dict) |-> IF dict[j][1] = name THEN <<name, value>> ELSE dict[j]]
    ELSE Append(dict, <<name, value>>)

\* update_usage(remaining, used): the new key_usage and current_index and the
\* number of rotations printed
update_usage(ks, i, usage, remaining, used) ==
    IF truthy(current_key(ks, i))
    THEN LET u == DictSet(usage, preview(current_key(ks, i)[1]),
                          [remaining |-> remaining, used |-> used])
         IN  IF remaining < 10 /\ Len(ks) > 1
             THEN [key_usage |-> u, current_index |-> rotate_key(ks, i).current_index,
                   rotated |-> rotate_key(ks, i).rotated]
             ELSE [key_usage |-> u, current_index |-> i, rotated |-> 0]
    ELSE [key_usage |-> usage, current_index |-> i, rotated |-> 0]

\* a plausible slip: any key_index from 1 on is accepted
valid_key_index_lower(key_index, ks) == key_index >= 1

\* set_specific_key: not (key_index < 1 or key_index > len(keys))
valid_key_index(key_index, ks) == ~(key_index < 1 \/ key_index > Len(ks))

\* the record of a call on the manager
KeyCall(op, arg, ret, rotated) ==
    [op |-> op, arg |-> arg, ret |-> ret, rotated |-> rotated,
     before |-> current_index, n |-> Len(keys), key_before |-> current_key(keys, current_index)]

\* POST /api/rotate-key
ForceRotateKey ==
    LET r == rotate_key(keys, current_index)
    IN  /\ usage_pc # "off"
        /\ current_index' = r.current_index
        /\ key_call' = Some(KeyCall("rotate_key", 0, r.ret, r.rotated))
        /\ UNCHANGED <<env, keys, key_usage, usage_pc, fetch>>
        /\ UNCHANGED <<calcVars, normVars, matchVars, fuzz, evVars, priceVars, midVars, dcVars,
                   botVars>>

\* POST /api/set-key/{key_index}
SetSpecificKey(key_index) ==
    /\ usage_pc # "off"
    /\ IF valid_key_index(key_index, keys)
       THEN current_index' = key_index - 1
       ELSE UNCHANGED current_index
    /\ key_call' = Some(KeyCall("set_key", key_index, valid_key_index(key_index, keys), 0))
    /\ UNCHANGED <<env, keys, key_usage, usage_pc, fetch>>
    /\ UNCHANGED <<calcVars, normVars, matchVars, fuzz, evVars, priceVars, midVars, dcVars,
                   botVars>>

\* POST /api/reload-keys
ReloadKeys ==
    /\ usage_pc # "off"
    /\ keys' = load_keys(env)
    /\ current_index' = 0
    /\ key_call' = Some(KeyCall("reload_keys", 0, Len(load_keys(env)), 0))
    /\ UNCHANGED <<env, key_usage, usage_pc, fetch>>
    /\ UNCHANGED <<calcVars, normVars, matchVars, fuzz, evVars, priceVars, midVars, dcVars,
                   botVars>>

\* GET /api/odds-usage up to its request to the sports list (src/api.py:994-1001)
UsageStart ==
    /\ usage_pc = "idle"
    /\ truthy(current_key(keys, current_index))
    /\ usage_pc' = "sent"
    /\ UNCHANGED <<env, keys, current_index, key_usage, key_call, fetch>>
    /\ UNCHANGED <<calcVars, normVars, matchVars, fuzz, evVars, priceVars, midVars, dcVars,
                   botVars>>

\* GET /api/odds-usage from the answer on (src/api.py:1002-1016): a 401 rotates,
\* any other answer reports the headers to update_usage
UsageResponse(status, remaining, used) ==
    /\ usage_pc = "sent"
    /\ usage_pc' = "idle"
    /\ IF status = 401
       THEN LET r == rotate_key(keys, current_index)
            IN  /\ current_index' = r.current_index
                /\ key_call' = Some(KeyCall("rotate_key", 0, r.ret, r.rotated))
                /\ UNCHANGED key_usage
       ELSE LET u == update_usage(keys, current_index, key_usage, remaining, used)
            IN  /\ current_index' = u.current_index
                /\ key_usage' = u.key_usage
                /\ key_call' = Some(KeyCall("update_usage", remaining, None, u.rotated))
    /\ UNCHANGED <<env, keys, fetch>>
    /\ UNCHANGED <<calcVars, normVars, matchVars, fuzz, evVars, priceVars, midVars, dcVars,
                   botVars>>

(***************************************************************************)
(* fetch_sharp_odds (src/api.py:716-743): the request for the events and   *)
(* its retry.  The coroutine gives up control at each request (async with  *)
(* session.get), so other requests run between its steps; rotate_key and   *)
(* the reading of the key for the retry are in one step.  The requests for *)
(* the odds of each event (744-800) do not touch the manager.              *)
(***************************************************************************)
\* a coroutine that has not sent anything
FetchIdle == [pc |-> "idle", first |-> None, retry |-> None, requests |-> 0]

\* lines 718-728: no request without a key; else the events request is sent
\* with the current key
FetchStart(f) ==
    /\ f \in DOMAIN fetch
    /\ fetch[f].pc = "idle"
    /\ IF ~truthy(current_key(keys, current_index))
       THEN fetch' = [fetch EXCEPT ![f] = [FetchIdle EXCEPT !.pc = "done"]]
       ELSE fetch' = [fetch EXCEPT ![f] =
                         [pc |-> "events", first |-> current_key(keys, current_index),
                          retry |-> None, requests |-> 1]]
    /\ UNCHANGED <<env, keys, current_index, key_usage, key_call, usage_pc>>
    /\ UNCHANGED <<calcVars, normVars, matchVars, fuzz, evVars, priceVars, midVars, dcVars,
                   botVars>>

\* lines 729-743: the answer to the events request
FetchEvents(f, status) ==
    /\ f \in DOMAIN fetch
    /\ fetch[f].pc = "events"
    /\ IF status \in {401, 403}
       THEN LET r == rotate_key(keys, current_index)
            IN  /\ current_index' = r.current_index
                /\ key_call' = Some(KeyCall("rotate_key", 0, r.ret, r.rotated))
                /\ IF r.ret
                   THEN fetch' = [fetch EXCEPT ![f] =
                                     [@ EXCEPT !.pc = "retry",
                                               !.retry = current_key(keys, r.current_index),
                                               !.requests = @ + 1]]
                   ELSE fetch' = [fetch EXCEPT ![f] = [@ EXCEPT !.pc = "done"]]
       ELSE /\ fetch' = [fetch EXCEPT ![f] = [@ EXCEPT !.pc = "done"]]
            /\ UNCHANGED <<current_index, key_call>>
    /\ UNCHANGED <<env, keys, key_usage, usage_pc>>
    /\ UNCHANGED <<calcVars, normVars, matchVars, fuzz, evVars, priceVars, midVars, dcVars,
                   botVars>>

\* lines 734-737: the answer to the retry; no further retry whatever it is
FetchRetry(f, status) ==
    /\ f \in DOMAIN fetch
    /\ fetch[f].pc = "retry"
    /\ fetch' = [fetch EXCEPT ![f] = [@ EXCEPT !.pc = "done"]]
    /\ UNCHANGED <<env, keys, current_index, key_usage, key_call, usage_pc>>
    /\ UNCHANGED <<calcVars, normVars, matchVars, fuzz, evVars, priceVars, midVars, dcVars,
                   botVars>>

\* the coroutine returns; the next call of fetch_sharp_odds starts afresh
FetchReturn(f) ==
    /\ f \in DOMAIN fetch
    /\ fetch[f].pc = "done"
    /\ fetch' = [fetch EXCEPT ![f] = FetchIdle]
    /\ UNCHANGED <<env, keys, current_index, key_usage, key_call, usage_pc>>
    /\ UNCHANGED <<calcVars, normVars, matchVars, fuzz, evVars, priceVars, midVars, dcVars,
                   botVars>>

(***************************************************************************)
(* SpecKeys: the handlers that work on the key manager, on every           *)
(* environment of Envs.  SpecRetry: concurrent fetch_sharp_odds calls next *)
(* to POST /api/rotate-key.                                                *)
(***************************************************************************)
\* values of an environment variable: unset, two keys (one with a trailing
\* blank) and a blank value
EnvValues == {None, Some(<<"a">>), Some(<<"b", " ">>), Some(<<" ">>)}

Envs == [0..MaxBackupKeys -> EnvValues]

\* the answers of the sports list: status, x-requests-remaining, x-requests-used
UsageAnswers == {<<200, 10, 490>>, <<200, 9, 491>>, <<401, 0, 0>>, <<500, 0, 0>>}

\* the answers to the events request and to its retry
EventStatuses == {200, 401, 403, 500}

\* the concurrent calls of fetch_sharp_odds
Fetchers == {"r1", "r2"}

InitKeys ==
    /\ env \in Envs
    /\ keys = load_keys(env)
    /\ current_index = 0
    /\ key_usage = <<>>
    /\ key_call = None
    /\ usage_pc = "idle"
    /\ fetch = <<>>
    /\ CalcIdle /\ NormIdle /\ MatchIdle /\ FuzzIdle /\ EvIdle /\ PriceIdle /\ MidIdle
    /\ DcIdle /\ BotIdle

NextKeys ==
    \/ ForceRotateKey
    \/ \E key_index \in 0..(MaxBackupKeys + 2) : SetSpecificKey(key_index)
    \/ ReloadKeys
    \/ UsageStart
    \/ \E a \in UsageAnswers : UsageResponse(a[1], a[2], a[3])

SpecKeys == InitKeys /\ [][NextKeys]_vars

InitRetry ==
    /\ env \in Envs
    /\ keys = load_keys(env)
    /\ current_index = 0
    /\ key_usage = <<>>
    /\ key_call = None
    /\ usage_pc = "idle"
    /\ fetch = [f \in Fetchers |-> FetchIdle]
    /\ CalcIdle /\ NormIdle /\ MatchIdle /\ FuzzIdle /\ EvIdle /\ PriceIdle /\ MidIdle
    /\ DcIdle /\ BotIdle

NextRetry ==
    \/ \E f \in Fetchers : FetchStart(f)
    \/ \E f \in Fetchers : \E status \in EventStatuses : FetchEvents(f, status)
    \/ \E f \in Fetchers : \E status \in EventStatuses : FetchRetry(f, status)
    \/ \E f \in Fetchers : FetchReturn(f)
    \/ ForceRotateKey

SpecRetry == InitRetry /\ [][NextRetry]_vars

(***************************************************************************)
(* Claims about the key manager (SpecKeys, SpecRetry).                     *)
(***************************************************************************)
\* C25 as stated: rotate_key returns False and leaves current_index unchanged
\* when at most one key is loaded, and with n > 1 keys sets current_index to
\* (current_index + 1) mod n and returns True; update_usage triggers exactly
\* one rotation when remaining < 10 and n > 1, and none otherwise.
C25_RotationSteps ==
    key_call # None =>
        LET c == key_call[1]
        IN  /\ (c.op = "rotate_key" /\ c.n <= 1) =>
                   (c.ret = FALSE /\ current_index = c.before)
            /\ (c.op = "rotate_key" /\ c.n > 1) =>
                   (c.ret = TRUE /\ current_index = (c.before + 1) % c.n)
            /\ (c.op = "update_usage" /\ c.arg < 10 /\ c.n > 1) =>
                   (c.rotated = 1 /\ current_index = (c.before + 1) % c.n)
            /\ (c.op = "update_usage" /\ ~(c.arg < 10 /\ c.n > 1)) =>
                   (c.rotated = 0 /\ current_index = c.before)

\* C26 as stated: when the events request is answered 401 or 403 and the
\* rotation succeeds, the single retry is sent with a key different from the
\* rejected one, under every interleaving of the concurrent requests; and no
\* call sends more than the request and one retry.
C26_RetryUsesAnotherKey ==
    \A f \in DOMAIN fetch :
        /\ fetch[f].retry # None => fetch[f].retry # fetch[f].first
        /\ fetch[f].requests <= 2

\* C28: after any sequence of rotate_key, update_usage, reload_keys and
\* /api/set-key, 0 <= current_index < len(keys) whenever a key is loaded,
\* and current_key is None exactly when no key is loaded.
C28_CurrentIndexInRange ==
    /\ keys # <<>> => (0 <= current_index /\ current_index < Len(keys))
    /\ current_key(keys, current_index) = None <=> keys = <<>>
    /\ keys # <<>> => current_key(keys, current_index) = Some(keys[current_index + 1])

C28_Witness ==
    /\ Len(keys) = 2
    /\ current_index = 1
    /\ key_call # None /\ key_call[1].op = "set_key" /\ key_call[1].arg = 3
    /\ key_call[1].ret = FALSE
    /\ key_usage # <<>>

(***************************************************************************)
(* DataCache (src/api.py:34-81) and the cache protocol of GET /api/props,  *)
(* /api/ev, /api/middles and /api/games.  Time counts seconds.  The data   *)
(* of a fetch is named by the instant the fetch ended; the result of       *)
(* /api/games is a dict that also holds the flags 'cached' and             *)
(* 'cache_fresh' of the response, the other results are lists.  A handler  *)
(* that                                                                    *)
(* does not answer from the cache gives up control while it fetches, so    *)
(* several requests can be fetching at once; the model has at most one of  *)
(* them per endpoint and value of refresh.                                 *)
(***************************************************************************)
\* cache = DataCache(default_ttl=300)
DEFAULT_TTL == 300

\* at most this many requests are fetching at once
MaxInFlight == 2

\* a plausible slip: an expired entry is reported as missing
cache_get_expiring(c, k, t) ==
    IF k \notin DOMAIN c THEN [data |-> None, is_fresh |-> FALSE]
    ELSE IF t - c[k].timestamp > c[k].ttl
         THEN [data |-> None, is_fresh |-> FALSE]
         ELSE [data |-> Some(c[k].data), is_fresh |-> TRUE]

\* DataCache.get(key) at time t: (data, is_fresh)
cache_get(c, k, t) ==
    IF k \notin DOMAIN c THEN [data |-> None, is_fresh |-> FALSE]
    ELSE IF t - c[k].timestamp > c[k].ttl
         THEN [data |-> Some(c[k].data), is_fresh |-> FALSE]
         ELSE [data |-> Some(c[k].data), is_fresh |-> TRUE]

\* DataCache.set(key, data, ttl) at time t; ttl is None or a number
cache_set(c, k, data, t, ttl) ==
    LET entry == [data |-> data, timestamp |-> t,
                  ttl |-> IF ttl = None \/ ttl[1] = 0 THEN DEFAULT_TTL ELSE ttl[1]]
    IN  [x \in DOMAIN c \cup {k} |-> IF x = k THEN entry ELSE c[x]]

\* DataCache.invalidate(key); key is None or a key
cache_invalidate(c, k) ==
    IF truthy(k) THEN [x \in DOMAIN c \ {k[1]} |-> c[x]] ELSE <<>>

\* the handlers that use the cache, and the cache key of each for sport nba
CachedEndpoints == {"props", "ev", "middles", "games"}

cache_key(endpoint) ==
    CASE endpoint = "props"   -> "props_nba"
      [] endpoint = "ev"      -> "ev_nba"
      [] endpoint = "middles" -> "middles_nba"
      [] endpoint = "games"   -> "games_nba"

\* the instants the clock is read at: two that are DEFAULT_TTL apart and one
\* a second later
Instants == {0, 300, 301}

\* time passes
Tick ==
    /\ \E t \in Instants : t > now /\ now' = t
    /\ answered' = None
    /\ UNCHANGED <<dcache, in_flight>>
    /\ UNCHANGED <<calcVars, normVars, matchVars, fuzz, evVars, priceVars, midVars, keyVars,
                   botVars>>

\* what a fetch that ends at time t yields
fetched(endpoint, t) ==
    [payload |-> <<"fetched", t>>,
     flags   |-> IF endpoint = "games"
                 THEN Some([cached |-> FALSE, cache_fresh |-> None]) ELSE None]

\* a request that is answered from the cache: refresh is false and
\* cache.get returns data; get_games writes the flags of its response into
\* the dict it got from the cache
RequestHit(endpoint) ==
    LET got == cache_get(dcache, cache_key(endpoint), now)
    IN  /\ got.data # None
        /\ answered' = Some([endpoint |-> endpoint, refresh |-> FALSE, cached |-> TRUE,
                             cache_fresh |-> Some(got.is_fresh),
                             data |-> got.data[1].payload])
        /\ dcache' = IF endpoint = "games"
                     THEN [dcache EXCEPT ![cache_key(endpoint)].data.flags =
                              Some([cached |-> TRUE, cache_fresh |-> Some(got.is_fresh)])]
                     ELSE dcache
        /\ UNCHANGED <<now, in_flight>>
        /\ UNCHANGED <<calcVars, normVars, matchVars, fuzz, evVars, priceVars, midVars,
                       keyVars, botVars>>

\* a request that starts to fetch: refresh is true or cache.get returned no
\* data
RequestMiss(endpoint, refresh) ==
    /\ refresh \/ cache_get(dcache, cache_key(endpoint), now).data = None
    /\ Cardinality(in_flight) < MaxInFlight
    /\ [endpoint |-> endpoint, refresh |-> refresh] \notin in_flight
    /\ in_flight' = in_flight \cup {[endpoint |-> endpoint, refresh |-> refresh]}
    /\ answered' = None
    /\ UNCHANGED <<dcache, now>>
    /\ UNCHANGED <<calcVars, normVars, matchVars, fuzz, evVars, priceVars, midVars, keyVars,
                   botVars>>

\* the fetch of request r ends: the handler stores the result under the
\* default ttl and answers with it; /api/ev returns without storing when it
\* found no props or no odds (stored is false)
RequestDone(r, stored) ==
    /\ r \in in_flight
    /\ stored \/ r.endpoint = "ev"
    /\ in_flight' = in_flight \ {r}
    /\ dcache' = IF stored
                 THEN cache_set(dcache, cache_key(r.endpoint), fetched(r.endpoint, now),
                                now, None)
                 ELSE dcache
    /\ answered' = Some([endpoint |-> r.endpoint, refresh |-> r.refresh, cached |-> FALSE,
                         cache_fresh |-> None,
                         data |-> IF stored THEN <<"fetched", now>> ELSE <<"nothing", now>>])
    /\ UNCHANGED now
    /\ UNCHANGED <<calcVars, normVars, matchVars, fuzz, evVars, priceVars, midVars, keyVars,
                   botVars>>

\* POST /api/cache/clear: cache.invalidate()
ClearCache ==
    /\ dcache' = cache_invalidate(dcache, None)
    /\ answered' = Some([endpoint |-> "cache/clear", refresh |-> FALSE, cached |-> FALSE,
                         cache_fresh |-> None, data |-> <<"cleared", now>>])
    /\ UNCHANGED <<now, in_flight>>
    /\ UNCHANGED <<calcVars, normVars, matchVars, fuzz, evVars, priceVars, midVars, keyVars,
                   botVars>>

(***************************************************************************)
(* SpecCache: requests to the four cached endpoints, POST /api/cache/clear *)
(* and the passing of time.                                                *)
(***************************************************************************)
InitCache ==
    /\ dcache = <<>>
    /\ now = 0
    /\ in_flight = {}
    /\ answered = None
    /\ CalcIdle /\ NormIdle /\ MatchIdle /\ FuzzIdle /\ EvIdle /\ PriceIdle /\ MidIdle
    /\ KeyIdle /\ BotIdle

NextCache ==
    \/ Tick
    \/ \E endpoint \in CachedEndpoints : RequestHit(endpoint)
    \/ \E endpoint \in CachedEndpoints : \E refresh \in BOOLEAN : RequestMiss(endpoint, refresh)
    \/ \E r \in in_flight : \E stored \in BOOLEAN : RequestDone(r, stored)
    \/ ClearCache

SpecCache == InitCache /\ [][NextCache]_vars

(***************************************************************************)
(* Claims about the cache (SpecCache).                                     *)
(***************************************************************************)
CacheKeys == {cache_key(endpoint) : endpoint \in CachedEndpoints}

\* C24 as stated: DataCache.get returns (None, False) when the key is
\* missing or the entry has expired (age > ttl), and (data, True) when the
\* entry is present and has not expired.
C24_GetReturnsNoneWhenExpired ==
    \A k \in CacheKeys :
        LET got == cache_get(dcache, k, now)
        IN  IF k \notin DOMAIN dcache \/ now - dcache[k].timestamp > dcache[k].ttl
            THEN got = [data |-> None, is_fresh |-> FALSE]
            ELSE got = [data |-> Some(dcache[k].data), is_fresh |-> TRUE]

\* what cache.set stored under each key: the fetched data, the time and the ttl
Stored(c) ==
    [k \in DOMAIN c |->
        [payload |-> c[k].data.payload, timestamp |-> c[k].timestamp, ttl |-> c[k].ttl]]

\* the step starts no fetch for a request without refresh while the cache
\* has an entry for it
NoFetchWhileEntry ==
    \A r \in in_flight' \ in_flight :
        ~r.refresh => cache_key(r.endpoint) \notin DOMAIN dcache

\* an answer from the cache is the entry's data whatever its age, says
\* whether the entry is within its ttl, and leaves what is stored as it is
HitAnswersFromEntry ==
    (answered' # None /\ answered'[1].cached) =>
        LET k == cache_key(answered'[1].endpoint)
        IN  /\ k \in DOMAIN dcache
            /\ answered'[1].data = dcache[k].data.payload
            /\ answered'[1].cache_fresh = Some(now - dcache[k].timestamp <= dcache[k].ttl)
            /\ Stored(dcache') = Stored(dcache)

\* the step replaces or removes what is stored under k
EntryChanges(k) ==
    /\ k \in DOMAIN dcache
    /\ k \notin DOMAIN dcache' \/ Stored(dcache')[k] # Stored(dcache)[k]

\* the step is POST /api/cache/clear
IsClear == answered' # None /\ answered'[1].endpoint = "cache/clear"

\* the step ends the fetch of a request for k
IsFetchedFor(k) ==
    /\ answered' # None
    /\ answered'[1].endpoint \in CachedEndpoints
    /\ cache_key(answered'[1].endpoint) = k
    /\ ~answered'[1].cached
    /\ [endpoint |-> answered'[1].endpoint, refresh |-> answered'[1].refresh] \in in_flight

BOT_PROP_MAPPINGS ==
    [stat \in {"Points", "Rebounds", "Assists", "3-Point Made", "Pts+Rebs+Asts",
               "Steals", "Blocks", "Turnovers", "Pass Yards", "Rush Yards",
               "Receiving Yards", "Receptions", "Strikeouts", "Shots On Goal",
               "Shots"} |->
        CASE stat = "Points"          -> "player_points"
          [] stat = "Rebounds"        -> "player_rebounds"
          [] stat = "Assists"         -> "player_assists"
          [] stat = "3-Point Made"    -> "player_threes"
          [] stat = "Pts+Rebs+Asts"   -> "player_points_rebounds_assists"
          [] stat = "Steals"          -> "player_steals"
          [] stat = "Blocks"          -> "player_blocks"
          [] stat = "Turnovers"       -> "player_turnovers"
          [] stat = "Pass Yards"      -> "player_pass_yds"
          [] stat = "Rush Yards"      -> "player_rush_yds"
          [] stat = "Receiving Yards" -> "player_reception_yds"
          [] stat = "Receptions"      -> "player_receptions"
          [] stat = "Strikeouts"      -> "pitcher_strikeouts"
          [] stat = "Shots On Goal"   -> "player_shots_on_goal"
          [] stat = "Shots"           -> "player_shots"]

\* BREAKEVEN_PP and BREAKEVEN_UD, in hundredths
BREAKEVEN_PP == << <<"5_flex", 5434>>, <<"4_power", 5623>>, <<"2_power", 5774>> >>
BREAKEVEN_UD ==
    << <<"5_leg", 5238>>, <<"4_leg", 5357>>, <<"3_leg", 5556>>, <<"2_leg", 6000>> >>

\* BREAKEVEN_UD.get(breakeven_key, 52.38)
UD_FALLBACK == 5238

\* the break-even of analyze_platform; the callers pass "5_flex" for
\* prizepicks and "5_leg" for underdog, and BREAKEVEN_PP[breakeven_key] has
\* no value for a key the table lacks
bot_breakeven(source, breakeven_key) ==
    IF source = "prizepicks"
    THEN SelectSeq(BREAKEVEN_PP, LAMBDA kv : kv[1] = breakeven_key)[1][2]
    ELSE DictGet(BREAKEVEN_UD, breakeven_key, UD_FALLBACK)

\* no_vig(over, under): the two probabilities in percent, not rounded
no_vig(over, under) ==
    LET oi == implied_prob(over)
        ui == implied_prob(under)
        t  == RAdd(oi, ui)
    IN  [over  |-> RMul(RDiv(oi, t), RInt(100)),
         under |-> RMul(RDiv(ui, t), RInt(100))]

\* n.lower().replace(" jr.", "").replace(" sr.", "").strip()
bot_normalize(n) ==
    Strip(Remove(Remove(Lower(n), <<" ", "j", "r", ".">>), <<" ", "s", "r", ".">>))

\* the loop of match, from name k of odds_names on
RECURSIVE bot_match_loop(_, _, _, _, _)
bot_match_loop(pp, odds_names, k, best, best_score) ==
    IF k > Len(odds_names) THEN best
    ELSE LET sc == score(pp, bot_normalize(odds_names[k]))
         IN  IF sc > best_score /\ sc >= 80
             THEN bot_match_loop(pp, odds_names, k + 1, Some(odds_names[k]), sc)
             ELSE bot_match_loop(pp, odds_names, k + 1, best, best_score)

\* match(pp_name, odds_names)
bot_match(pp_name, odds_names) ==
    bot_match_loop(bot_normalize(pp_name), odds_names, 1, None, 0)

\* markets = set(PROP_MAPPINGS.get(p.stat) for p in props if p.stat in PROP_MAPPINGS)
bot_markets(props) ==
    {BOT_PROP_MAPPINGS[props[k].stat] :
        k \in {j \in 1..Len(props) : props[j].stat \in DOMAIN BOT_PROP_MAPPINGS}}

\* for m in list(markets)[:5]: all_odds.extend(fetch_odds(session, sport, m)),
\* for the markets in the order the sequence order lists them
RECURSIVE bot_all_odds(_, _)
bot_all_odds(order, feed) ==
    IF order = <<>> THEN <<>>
    ELSE (IF Head(order) \in DOMAIN feed THEN feed[Head(order)] ELSE <<>>)
         \o bot_all_odds(Tail(order), feed)

\* the orders list(markets)[:5] can have: a set has no order of its own
bot_market_orders(markets) ==
    {order \in DistinctSeqs(markets, 5) :
        Len(order) = (IF Cardinality(markets) < 5 THEN Cardinality(markets) ELSE 5)}

\* the inner loop for prop p and matched name m, from entry k of all_odds on:
\* the first entry of that player within 0.5 of the line decides
RECURSIVE bot_first_entry(_, _, _, _)
bot_first_entry(p, m, odds, k) ==
    IF k > Len(odds) THEN 0
    ELSE IF odds[k].player # m \/ Abs(odds[k].line - p.line) > 5
         THEN bot_first_entry(p, m, odds, k + 1)
         ELSE k

\* the body of the loop over props for prop p: None, or the play with the
\* prop and the entry it was built from
bot_play(p, odds, breakeven) ==
    LET m == bot_match(p.player, [k \in 1..Len(odds) |-> odds[k].player])
    IN  IF m = None \/ m[1] = <<>> THEN None
        ELSE LET k == bot_first_entry(p, m[1], odds, 1)
             IN  IF k = 0 THEN None
                 ELSE LET o  == odds[k]
                          nv == no_vig(o.over, o.under)
                          win == RMax(nv.over, nv.under)
                      IN  IF RLeq(Hundredths(breakeven), win)
                          THEN Some([player |-> p.player, team |-> p.team,
                                     stat |-> p.stat, line |-> p.line,
                                     play |-> IF RLess(nv.under, nv.over)
                                              THEN "OVER" ELSE "UNDER",
                                     win |-> win, book |-> o.book, ov |-> o.over,
                                     un |-> o.under, prop |-> p, odds |-> o])
                          ELSE None

\* the loop over props, from prop k on
RECURSIVE bot_plays(_, _, _, _)
bot_plays(props, odds, breakeven, k) ==
    IF k > Len(props) THEN <<>>
    ELSE bot_play(props[k], odds, breakeven) \o bot_plays(props, odds, breakeven, k + 1)

\* plays.sort(key=lambda x: x["win"], reverse=True): stable, descending
RECURSIVE bot_sort(_)
bot_sort(plays) ==
    IF plays = <<>> THEN <<>>
    ELSE LET last   == plays[Len(plays)]
             sorted == bot_sort(SubSeq(plays, 1, Len(plays) - 1))
             before == SelectSeq(sorted, LAMBDA p : RLeq(last.win, p.win))
             after  == SelectSeq(sorted, LAMBDA p : RLess(p.win, last.win))
         IN  before \o <<last>> \o after

\* analyze_platform(session, sport, source, fetch_func, breakeven_key) when
\* the markets are fetched in the given order
analyze_platform(source, props, feed, order, breakeven_key) ==
    IF props = <<>> THEN [plays |-> <<>>, error |-> Some("No props found")]
    ELSE LET odds == bot_all_odds(order, feed)
         IN  IF odds = <<>> THEN [plays |-> <<>>, error |-> Some("No odds found")]
             ELSE [plays |-> bot_sort(bot_plays(props, odds,
                                                bot_breakeven(source, breakeven_key), 1)),
                   error |-> None]

\* one run of analyze_platform
AnalyzePlatform(order) ==
    /\ bot_source # "" /\ bot_out = None
    /\ order \in bot_market_orders(bot_markets(bot_props))
    /\ bot_out' = Some(analyze_platform(bot_source, bot_props, bot_feed, order,
                                        IF bot_source = "prizepicks" THEN "5_flex"
                                        ELSE "5_leg"))
    /\ UNCHANGED <<bot_source, bot_props, bot_feed>>
    /\ UNCHANGED <<calcVars, normVars, matchVars, fuzz, evVars, priceVars, midVars,
                   keyVars, dcVars>>

(***************************************************************************)
(* SpecBot: analyze_platform on the props of BotPropPool and the feeds of  *)
(* BotFeeds.                                                               *)
(***************************************************************************)
MaxBotProps == 2
MaxBotOdds  == 1

NewBotProp(player, stat, line) ==
    [player |-> player, team |-> "", stat |-> stat, line |-> line, league |-> "NBA"]

NewBotOdds(market, player, line, over, under, book) ==
    [market |-> market, player |-> player, line |-> line, over |-> over, under |-> under,
     book |-> book]

\* "Fantasy Score" has no entry in the bot's PROP_MAPPINGS
BotPropPool ==
    { NewBotProp(Name_a, "Assists", 85), NewBotProp(Name_a, "Rebounds", 85),
      NewBotProp(Name_a, "Fantasy Score", 90), NewBotProp(Name_b, "Rebounds", 105) }

BotOddsPool(market) ==
    IF market = "player_assists"
    THEN { NewBotOdds(market, Name_a, 85, -150, 120, "draftkings"),
           NewBotOdds(market, Name_b, 105, -110, -110, "fanduel") }
    ELSE { NewBotOdds(market, Name_a, 115, -130, 100, "draftkings"),
           NewBotOdds(market, Name_b, 105, 110, -140, "fanduel") }

BotMarkets == {"player_assists", "player_rebounds"}

BotFeeds ==
    {feed \in [BotMarkets -> DistinctSeqs(BotOddsPool("player_assists"), MaxBotOdds)
                             \cup DistinctSeqs(BotOddsPool("player_rebounds"), MaxBotOdds)] :
        \A m \in BotMarkets : \A k \in 1..Len(feed[m]) : feed[m][k].market = m}

\* the names a and b are different players: the library scores them 0
BotFuzz == [pair \in {<<Name_a, Name_b>>, <<Name_b, Name_a>>} |-> 0]

InitBot ==
    /\ bot_source \in {"prizepicks", "underdog"}
    /\ bot_props \in DistinctSeqs(BotPropPool, MaxBotProps)
    /\ bot_feed \in BotFeeds
    /\ bot_out = None
    /\ fuzz = BotFuzz
    /\ CalcIdle /\ NormIdle /\ MatchIdle /\ EvIdle /\ PriceIdle /\ MidIdle
    /\ KeyIdle /\ DcIdle

NextBot == \E order \in DistinctSeqs(BotMarkets, 5) : AnalyzePlatform(order)

SpecBot == InitBot /\ [][NextBot]_vars

(***************************************************************************)
(* Claims about the bot (SpecBot).                                         *)
(***************************************************************************)
\* C21 as stated: analyze_platform skips every prop whose stat has no market
\* mapping and compares each prop only with the entries of the market its
\* stat maps to, so a play never pairs a prop with odds for a different stat
\* of the same player.
C21_BotPlaysStayInTheStatsMarket ==
    bot_out # None =>
        \A k \in 1..Len(bot_out[1].plays) :
            LET play == bot_out[1].plays[k]
            IN  /\ play.prop.stat \in DOMAIN BOT_PROP_MAPPINGS
                /\ play.odds.market = BOT_PROP_MAPPINGS[play.prop.stat]

====
